---- MODULE Spec2Model ----
(***************************************************************************)
(* Model of the analyze-power-data edge function of gemini-power-lab:      *)
(* the deterministic baseline metrics (computeBaselineMetrics), the merge  *)
(* of an external analysis with that baseline (mergeAnalysis) and the      *)
(* request handler around them.                                            *)
(*                                                                         *)
(* JavaScript values are tagged records [t, n, s, f]:                      *)
(*   t = "num"   a finite number, n its value                              *)
(*   t = "nan"   the number NaN                                            *)
(*   t = "null", "undef"   null and undefined (an absent key reads undef)  *)
(*   t = "str"   a string, s its text                                      *)
(*   t = "obj"   an object, f the function from its own keys to values     *)
(* IEEE doubles are held in fixed point: a value x is the integer          *)
(* x * Scale, rounded down.                                                *)
(***************************************************************************)
EXTENDS Integers, Sequences, FiniteSets, TLC

VARIABLES
    data,      \* the WaveformBatch of the request (PowerData)
    base,      \* the baseline given to mergeAnalysis
    ai,        \* the external analysis object given to mergeAnalysis
    tmpl,      \* which external analysis the caller started from
    defects,   \* the malformations of that external analysis: [path, kind]
    res,       \* what mergeAnalysis left: [out, ai, aliased, threw]
    pc,        \* position of the caller: "start", "baseline", "merged", or of
               \* the request handler: "idle", "fetch", "wait", "respond", "done"
    req,       \* the HTTP request: [method, body, key]
    attempt,   \* the loop counter i of fetchWithRetry
    response,  \* the response fetchWithRetry returned
    events,    \* what fetchWithRetry did so far: requests, waits, the throw
    reply,     \* the HTTP response of the handler: [status, error, body]
    sig,       \* the arguments of one signal function: [a, b, maxLag, fs]
    est,       \* what the signal function returned: [op, value]
    input,     \* the text given to the data validator
    verdict    \* what the validator returned: [by, isValid, errors]

hvars == <<req, attempt, response, events, reply>>

xvars == <<sig, est, input, verdict>>

vars == <<data, base, ai, tmpl, defects, res, pc, req, attempt, response, events, reply,
          sig, est, input, verdict>>

-----------------------------------------------------------------------------
(* JavaScript values *)

NoFields == [k \in {} |-> 0]

Num(n)  == [t |-> "num",   n |-> n, s |-> "", f |-> NoFields]
Str(s)  == [t |-> "str",   n |-> 0, s |-> s,  f |-> NoFields]
Obj(f)  == [t |-> "obj",   n |-> 0, s |-> "", f |-> f]
Null    == [t |-> "null",  n |-> 0, s |-> "", f |-> NoFields]
Undef   == [t |-> "undef", n |-> 0, s |-> "", f |-> NoFields]
NaN     == [t |-> "nan",   n |-> 0, s |-> "", f |-> NoFields]

IsObj(v)     == v.t = "obj"
IsNullish(v) == v.t \in {"null", "undef"}

\* ToBoolean(v): the test of `if (v)`
Truthy(v) ==
    CASE v.t = "obj" -> TRUE
      [] v.t = "num" -> v.n # 0
      [] v.t = "str" -> v.s # ""
      [] OTHER       -> FALSE

\* v[k] for a v that is not null or undefined: a primitive has no such key
Get(v, k) == IF IsObj(v) /\ k \in DOMAIN v.f THEN v.f[k] ELSE Undef

\* o[k] = v on an object
Put(o, k, v) == Obj([kk \in DOMAIN o.f \cup {k} |-> IF kk = k THEN v ELSE o.f[kk]])

\* delete o[k]
Del(o, k) == Obj([kk \in DOMAIN o.f \ {k} |-> o.f[kk]])

\* v?.a?.b?.c : undefined as soon as a null or undefined is met on the way
RECURSIVE GetPath(_, _)
GetPath(v, path) ==
    IF path = <<>> THEN v
    ELSE IF IsNullish(v) THEN Undef
    ELSE GetPath(Get(v, Head(path)), Tail(path))

\* the object v with the value at path replaced (objects created on the way)
RECURSIVE SetPath(_, _, _)
SetPath(v, path, val) ==
    IF path = <<>> THEN val
    ELSE LET o == IF IsObj(v) THEN v ELSE Obj(NoFields)
         IN  Put(o, Head(path), SetPath(Get(o, Head(path)), Tail(path), val))

\* the object v with the key at path deleted
RECURSIVE DelPath(_, _)
DelPath(v, path) ==
    IF ~IsObj(v) \/ Head(path) \notin DOMAIN v.f THEN v
    ELSE IF Len(path) = 1 THEN Del(v, Head(path))
    ELSE Put(v, Head(path), DelPath(v.f[Head(path)], Tail(path)))

\* the characters of the strings the model uses, as Object.assign sees them
CharsOf(s) ==
    CASE s = "x"  -> <<"x">>
      [] s = "ab" -> <<"a", "b">>
      [] OTHER    -> <<>>

IndexKey(i) == CASE i = 1 -> "0" [] i = 2 -> "1" [] OTHER -> "2"

-----------------------------------------------------------------------------
(* mergeAnalysis *)

\* JSON.parse(JSON.stringify(v)): NaN becomes null, undefined keys are dropped
RECURSIVE jsonClone(_)
jsonClone(v) ==
    CASE v.t = "nan" -> Null
      [] v.t = "obj" ->
            Obj([k \in {kk \in DOMAIN v.f : v.f[kk].t # "undef"} |-> jsonClone(v.f[k])])
      [] OTHER -> v

\* a buggy Object.assign that copies nothing
objectAssignNothing(out, src) == out

\* an Object.assign that only overwrites the keys out already has
objectAssignKnown(out, src) ==
    IF src.t = "obj"
    THEN Obj([k \in DOMAIN out.f |-> IF k \in DOMAIN src.f THEN src.f[k] ELSE out.f[k]])
    ELSE out

\* Object.assign(out, src): own enumerable keys of src, shallow; null,
\* undefined, numbers copy nothing, a string copies its indexed characters
objectAssign(out, src) ==
    CASE src.t = "obj" ->
            Obj([k \in DOMAIN out.f \cup DOMAIN src.f |->
                    IF k \in DOMAIN src.f THEN src.f[k] ELSE out.f[k]])
      [] src.t = "str" ->
            LET cs == CharsOf(src.s)
                ks == {IndexKey(i) : i \in 1..Len(cs)}
            IN  Obj([k \in DOMAIN out.f \cup ks |->
                    IF k \in ks
                    THEN Str(cs[CHOOSE i \in 1..Len(cs) : IndexKey(i) = k])
                    ELSE out.f[k]])
      [] OTHER -> out

\* the walk of setIfMissingOrNull below `node`: [v, threw]. An assignment to
\* a property of a primitive throws TypeError (the file is an ES module, so
\* strict mode).
RECURSIVE setWalk(_, _, _)
setWalk(node, path, val) ==
    IF ~IsObj(node) THEN [v |-> node, threw |-> TRUE]
    ELSE IF Len(path) = 1
    THEN LET current == Get(node, path[1])
         IN  IF current.t \in {"undef", "null", "nan"}
             THEN [v |-> Put(node, path[1], val), threw |-> FALSE]
             ELSE [v |-> node, threw |-> FALSE]
    ELSE LET k     == Head(path)
             child == IF IsNullish(Get(node, k)) THEN Obj(NoFields) ELSE Get(node, k)
             r     == setWalk(child, Tail(path), val)
         IN  [v |-> Put(node, k, r.v), threw |-> r.threw]

\* a merge whose repairs stay in the returned object, as if Object.assign had
\* copied the groups of the external analysis
setIfMissingOrNullCopied(st, path, val) ==
    LET r == setWalk(st.out, path, val)
    IN  [out |-> r.v, ai |-> st.ai, aliased |-> st.aliased, threw |-> r.threw]

\* setIfMissingOrNull(path, val) on the merge state st = [out, ai, aliased,
\* threw]. A group of out that Object.assign took from ai is the same object
\* as ai's, so what is written below it is written into ai as well.
setIfMissingOrNull(st, path, val) ==
    LET r    == setWalk(st.out, path, val)
        top  == path[1]
        ai2  == IF Len(path) > 1 /\ top \in st.aliased
                THEN Put(st.ai, top, r.v.f[top])
                ELSE st.ai
    IN  [out |-> r.v, ai |-> ai2, aliased |-> st.aliased, threw |-> r.threw]

\* a ?? b ?? c over optional-chained paths of the object `from`
RECURSIVE Coalesce(_, _)
Coalesce(from, srcs) ==
    LET v == GetPath(from, Head(srcs))
    IN  IF Len(srcs) = 1 \/ ~IsNullish(v) THEN v
        ELSE Coalesce(from, Tail(srcs))

\* One call of setIfMissingOrNull in mergeAnalysis: the `if` conditions
\* around it (paths of ai that must be truthy), its target path, and the
\* paths of ai its value comes from. strict: ai itself is dereferenced
\* without `?.`.
Call(guards, path, srcs, strict) ==
    [guards |-> guards, path |-> path, srcs |-> srcs, strict |-> strict]

Leaf3(g, sub, k) == Call(<< <<g, sub>> >>, <<g, sub, k>>, << <<g, sub, k>> >>, FALSE)

RmsCalls ==
    << Leaf3("rms_values", "voltage", "L1"),
       Leaf3("rms_values", "voltage", "L2"),
       Leaf3("rms_values", "voltage", "L3"),
       Leaf3("rms_values", "current", "L1"),
       Leaf3("rms_values", "current", "L2"),
       Leaf3("rms_values", "current", "L3"),
       Leaf3("rms_values", "line_to_line_voltage", "L12"),
       Leaf3("rms_values", "line_to_line_voltage", "L23"),
       Leaf3("rms_values", "line_to_line_voltage", "L31") >>

TopCalls ==
    << Call(<<>>, <<"frequency_hz">>, << <<"frequency_hz">> >>, TRUE),
       Call(<<>>, <<"phase_sequence">>, << <<"phase_sequence">> >>, TRUE) >>

PA == "phase_angles_degrees"

AngleVI(k, alt1, alt2) ==
    Call(<< <<PA>> >>, <<PA, k>>,
         << <<PA, k>>, <<PA, "voltage", alt1>>, <<PA, "voltage_current", alt2>> >>, FALSE)

AngleVV(k, alt) ==
    Call(<< <<PA>> >>, <<PA, k>>, << <<PA, k>>, <<PA, "voltage", alt>> >>, FALSE)

AngleCalls ==
    << AngleVI("voltage_L1_vs_current_L1", "L1_L1", "L1"),
       AngleVI("voltage_L2_vs_current_L2", "L2_L2", "L2"),
       AngleVI("voltage_L3_vs_current_L3", "L3_L3", "L3"),
       AngleVV("voltage_L1_vs_voltage_L2", "L1_L2"),
       AngleVV("voltage_L2_vs_voltage_L3", "L2_L3"),
       AngleVV("voltage_L3_vs_voltage_L1", "L3_L1") >>

PowerCall(q, f) ==
    Call(<< <<"power_analysis">> >>, <<"power_analysis", q, f>>,
         << <<"power_analysis", q, f>> >>, FALSE)

PowerFields == <<"L1", "L2", "L3", "total">>

PowerCalls ==
    LET one(f) == << PowerCall("active_power", f), PowerCall("reactive_power", f),
                     PowerCall("apparent_power", f), PowerCall("power_factor", f) >>
    IN  one(PowerFields[1]) \o one(PowerFields[2]) \o one(PowerFields[3]) \o one(PowerFields[4])

QM == "quality_metrics"

ThdCall(g, k) ==
    Call(<< <<QM>>, <<QM, g>> >>, <<QM, g, k>>, << <<QM, g, k>> >>, FALSE)

QualityCalls ==
    << Call(<< <<QM>> >>, <<QM, "voltage_unbalance_percent">>,
            << <<QM, "voltage_unbalance_percent">> >>, FALSE),
       Call(<< <<QM>> >>, <<QM, "current_unbalance_percent">>,
            << <<QM, "current_unbalance_percent">> >>, FALSE),
       ThdCall("thd_voltage", "L1"), ThdCall("thd_voltage", "L2"), ThdCall("thd_voltage", "L3"),
       ThdCall("thd_current", "L1"), ThdCall("thd_current", "L2"), ThdCall("thd_current", "L3") >>

MergeCalls == RmsCalls \o TopCalls \o AngleCalls \o PowerCalls \o QualityCalls

\* one guarded call, on the merge state
doCall(st, c) ==
    IF c.strict /\ IsNullish(st.ai) THEN [st EXCEPT !.threw = TRUE]
    ELSE IF \E i \in 1..Len(c.guards) : ~Truthy(GetPath(st.ai, c.guards[i])) THEN st
    ELSE setIfMissingOrNull(st, c.path, Coalesce(st.ai, c.srcs))

\* the calls in program order; an exception ends the function
RECURSIVE runCalls(_, _)
runCalls(st, calls) ==
    IF calls = <<>> \/ st.threw THEN st
    ELSE runCalls(doCall(st, Head(calls)), Tail(calls))

\* mergeAnalysis(ai, base): [out, ai, aliased, threw]; out is the returned
\* object, ai the caller's object as the call leaves it
mergeAnalysis(a, b) ==
    LET out0 == jsonClone(b)
        out1 == objectAssign(out0, a)
        st0  == [out |-> out1, ai |-> a,
                 aliased |-> IF IsObj(a) THEN {k \in DOMAIN a.f : IsObj(a.f[k])} ELSE {},
                 threw |-> FALSE]
        st1  == runCalls(st0, MergeCalls)
    IN  IF st1.threw THEN st1
        ELSE IF Truthy(GetPath(st1.ai, <<"analysis_notes">>))
        THEN [st1 EXCEPT !.out = Put(st1.out, "analysis_notes", Get(st1.ai, "analysis_notes"))]
        ELSE st1

-----------------------------------------------------------------------------
(* Numbers of computeBaselineMetrics *)

\* fixed-point unit: the number x is held as the integer x * Scale
Scale == 100

Max2(a, b) == IF a >= b THEN a ELSE b
Min2(a, b) == IF a <= b THEN a ELSE b
Abs(a)     == IF a < 0 THEN -a ELSE a

\* a / b of two numbers, rounded towards zero as the sign-symmetric IEEE
\* division is
TDiv(a, b) ==
    IF (a >= 0) = (b > 0) THEN Abs(a) \div Abs(b) ELSE -(Abs(a) \div Abs(b))

\* a % b of JavaScript: the remainder has the sign of the dividend
JsRem(a, b) == a - b * TDiv(a, b)

\* Math.sqrt, rounded down
RECURSIVE SqrtSearch(_, _, _)
SqrtSearch(n, lo, hi) ==
    IF lo >= hi THEN lo
    ELSE LET mid == (lo + hi + 1) \div 2
         IN  IF mid * mid <= n THEN SqrtSearch(n, mid, hi) ELSE SqrtSearch(n, lo, mid - 1)

ISqrt(n) == IF n = 0 THEN 0 ELSE SqrtSearch(n, 0, Min2(n, 46340))

\* arr.reduce((s, x) => s + x, 0)
RECURSIVE Sum(_)
Sum(arr) == IF arr = <<>> THEN 0 ELSE Head(arr) + Sum(Tail(arr))

\* a.map((v, i) => v * b[i])
Products(a, b) == [i \in 1..Len(a) |-> a[i] * b[i]]

\* a.map((v, i) => v - b[i])
Differences(a, b) == [i \in 1..Len(a) |-> a[i] - b[i]]

\* rms(arr) = Math.sqrt(sum of squares / length), in fixed point
rms(arr) == ISqrt(TDiv(Sum(Products(arr, arr)) * Scale * Scale, Len(arr)))

\* peak(arr) = max |x|, in fixed point
RECURSIVE peakRaw(_)
peakRaw(arr) == IF arr = <<>> THEN 0 ELSE Max2(Abs(Head(arr)), peakRaw(Tail(arr)))

peak(arr) == peakRaw(arr) * Scale

\* demean(arr) = arr.map(x => x - mean(arr)), held exactly as multiples of
\* 1/length: element i is (arr[i] - mean) * length
RECURSIVE demeanFrom(_, _, _)
demeanFrom(arr, total, i) ==
    IF i > Len(arr) THEN <<>>
    ELSE <<Len(arr) * arr[i] - total>> \o demeanFrom(arr, total, i + 1)

demean(arr) == demeanFrom(arr, Sum(arr), 1)

\* crossings that need a negative sample before the positive one
RECURSIVE crossingsStrict(_, _)
crossingsStrict(x, i) ==
    IF i >= Len(x) THEN <<>>
    ELSE (IF x[i] < 0 /\ x[i + 1] > 0 THEN <<i>> ELSE <<>>) \o crossingsStrict(x, i + 1)

\* the (0-based) indices i in 1..N-1 with x[i-1] <= 0 and x[i] > 0, ascending
RECURSIVE crossingsFrom(_, _)
crossingsFrom(x, i) ==
    IF i >= Len(x) THEN <<>>
    ELSE (IF x[i] <= 0 /\ x[i + 1] > 0 THEN <<i>> ELSE <<>>) \o crossingsFrom(x, i + 1)

crossings(arr) == crossingsFrom(demean(arr), 1)

\* periods[i] = crossings[i] - crossings[i-1]
periods(cr) == [i \in 1..(Len(cr) - 1) |-> cr[i + 1] - cr[i]]

\* freqFromZeroCross(arr): fs / avgPeriod in fixed point, NaN below 2
\* crossings; avgPeriod = sum / length is not truncated before fs is divided
freqFromZeroCross(arr, fs) ==
    LET cr == crossings(arr)
    IN  IF Len(cr) < 2 THEN NaN
        ELSE LET ps == periods(cr)
             IN  Num(TDiv(fs * Scale * Len(ps), Sum(ps)))

\* the sum over i of ax[i] * bx[i + lag] for the j = i + lag inside bx
RECURSIVE lagSum(_, _, _, _)
lagSum(ax, bx, lag, i) ==
    IF i > Len(ax) THEN 0
    ELSE (IF i + lag >= 1 /\ i + lag <= Len(bx) THEN ax[i] * bx[i + lag] ELSE 0)
         + lagSum(ax, bx, lag, i + 1)

\* a scan that lets a later lag of equal sum replace the best one
RECURSIVE lagScanLast(_, _, _, _, _, _, _)
lagScanLast(ax, bx, lag, maxLag, first, bestSum, bestLag) ==
    IF lag > maxLag THEN bestLag
    ELSE LET sum == lagSum(ax, bx, lag, 1)
         IN  IF first \/ sum >= bestSum
             THEN lagScanLast(ax, bx, lag + 1, maxLag, FALSE, sum, lag)
             ELSE lagScanLast(ax, bx, lag + 1, maxLag, FALSE, bestSum, bestLag)

\* the scan of correlationLag from `lag` on: corr = sum / denom with one
\* denom > 0 for all lags, so corr > bestVal is sum > bestSum; before the
\* first lag bestVal is -Infinity (first = TRUE)
RECURSIVE lagScan(_, _, _, _, _, _, _)
lagScan(ax, bx, lag, maxLag, first, bestSum, bestLag) ==
    IF lag > maxLag THEN bestLag
    ELSE LET sum == lagSum(ax, bx, lag, 1)
         IN  IF first \/ sum > bestSum
             THEN lagScan(ax, bx, lag + 1, maxLag, FALSE, sum, lag)
             ELSE lagScan(ax, bx, lag + 1, maxLag, FALSE, bestSum, bestLag)

\* a correlationLag whose comparison succeeds on a coefficient that is not a
\* number
correlationLagUnguarded(a, b, maxLag) ==
    lagScan(demean(a), demean(b), -maxLag, maxLag, TRUE, 0, 0)

\* a correlationLag that scans the lags from 0 to maxLag only
correlationLagForward(a, b, maxLag) ==
    LET ax == demean(a)
        bx == demean(b)
        denomSq == Sum(Products(ax, ax)) * Sum(Products(bx, bx))
    IN  IF denomSq = 0 THEN 0
        ELSE lagScan(ax, bx, 0, maxLag, TRUE, 0, 0)

\* correlationLag(a, b, maxLag). With denom = 0 every sum is 0 and corr is
\* NaN, no comparison succeeds and bestLag stays 0.
correlationLag(a, b, maxLag) ==
    LET ax == demean(a)
        bx == demean(b)
        denomSq == Sum(Products(ax, ax)) * Sum(Products(bx, bx))
    IN  IF denomSq = 0 THEN 0
        ELSE lagScan(ax, bx, -maxLag, maxLag, TRUE, 0, 0)

\* a samplesPerPeriod that falls back to 60 Hz
samplesPerPeriodSixty(f0, fs) ==
    IF f0.t = "num" /\ f0.n > 0 THEN TDiv(fs * Scale * Scale, f0.n)
    ELSE TDiv(fs * Scale, 60)

\* samplesPerPeriod: fs / f0 when f0 is finite and positive, else fs / 50
samplesPerPeriod(f0, fs) ==
    IF f0.t = "num" /\ f0.n > 0 THEN TDiv(fs * Scale * Scale, f0.n)
    ELSE TDiv(fs * Scale, 50)

\* Math.round: half up
Round(x) == (x + Scale \div 2) \div Scale

\* lagToDeg(lag) = (lag / samplesPerPeriod) * 360, multiplied before it is
\* divided so that the quotient is not truncated first
lagToDeg(lag, spp) == TDiv(lag * 360 * Scale * Scale, spp)

\* a normDeg with one remainder only: (deg + 180) % 360 - 180
normDegOnce(deg) == JsRem(deg + 180 * Scale, 360 * Scale) - 180 * Scale

\* normDeg(deg) = ((deg + 180) % 360 + 360) % 360 - 180
normDeg(deg) ==
    JsRem(JsRem(deg + 180 * Scale, 360 * Scale) + 360 * Scale, 360 * Scale) - 180 * Scale

\* avg(v.map((v, i) => v * c[i])) / 1000: an active power. Powers are held
\* as kW * 1000 * Scale, so that the division by 1000 loses nothing.
activePower(v, c) == TDiv(Sum(Products(v, c)) * Scale, Len(v))

\* (Vrms * Irms) / 1000: an apparent power
apparentPower(vrms, irms) == TDiv(vrms * irms, Scale)

\* a power factor clamped to [0, 1] as the total one is
powerFactorNonNegative(P, S) ==
    IF S > 0 THEN Num(Min2(Scale, Max2(0, TDiv(P * Scale, S)))) ELSE Null

\* PF = S > 0 ? Math.min(1, Math.max(-1, P / S)) : null
powerFactor(P, S) ==
    IF S > 0 THEN Num(Min2(Scale, Max2(-Scale, TDiv(P * Scale, S)))) ELSE Null

\* a reactive power with the two squares exchanged
reactivePowerSwapped(PF, P, S) ==
    IF PF.t # "null" THEN Num(ISqrt(Max2(0, P * P - S * S))) ELSE Null

\* a reactive power computed whatever the power factor
reactivePowerUnguarded(PF, P, S) == Num(ISqrt(Max2(0, S * S - P * P)))

\* Q = PF !== null ? Math.sqrt(Math.max(0, S * S - P * P)) : null
reactivePower(PF, P, S) ==
    IF PF.t # "null" THEN Num(ISqrt(Max2(0, S * S - P * P))) ELSE Null

\* (v || 0) of the reduce over the three phases
OrZero(v) == IF v.t = "num" THEN v.n ELSE 0

\* a total power factor clamped to [-1, 1] as the per-phase ones are
totalPowerFactorSigned(totalP, totalS) ==
    IF totalS > 0 THEN Num(Min2(Scale, Max2(-Scale, TDiv(totalP * Scale, totalS)))) ELSE Null

\* totalPF = totalS > 0 ? Math.min(1, Math.max(0, totalP / totalS)) : null
totalPowerFactor(totalP, totalS) ==
    IF totalS > 0 THEN Num(Min2(Scale, Max2(0, TDiv(totalP * Scale, totalS)))) ELSE Null

\* an unbalance taken from the spread between the largest and the smallest
unbalanceSpread(a, b, c) ==
    LET avg3 == a + b + c
        hi   == Max2(a, Max2(b, c))
        lo   == Min2(a, Min2(b, c))
    IN  IF avg3 = 0 THEN Num(0) ELSE Num(TDiv(3 * (hi - lo) * 100 * Scale, avg3))

\* unbalance without its guard: 0 / 0 is NaN
unbalanceNoGuard(a, b, c) ==
    LET avg3    == a + b + c
        maxDev3 == Max2(Abs(3 * a - avg3), Max2(Abs(3 * b - avg3), Abs(3 * c - avg3)))
    IN  IF avg3 = 0 THEN NaN ELSE Num(TDiv(maxDev3 * 100 * Scale, avg3))

\* unbalance(a, b, c) = (maxDev / avg) * 100, or 0 when avg === 0; avg and
\* maxDev are held times 3 so that the mean is not truncated
unbalance(a, b, c) ==
    LET avg3 == a + b + c
    IN  IF avg3 = 0 THEN Num(0)
        ELSE LET maxDev3 == Max2(Abs(3 * a - avg3),
                                 Max2(Abs(3 * b - avg3), Abs(3 * c - avg3)))
             IN  Num(TDiv(maxDev3 * 100 * Scale, avg3))

\* Math.cos of an angle in whole degrees, in fixed point (Bhaskara's
\* rational form on [-90, 90], reflected onto the other quadrants)
quarterCos(x) == TDiv((32400 - 4 * x * x) * Scale, 32400 + x * x)

cosDeg(d) ==
    LET r == ((d % 360) + 360) % 360
    IN  IF r <= 90 THEN quarterCos(r)
        ELSE IF r <= 270 THEN -quarterCos(r - 180)
        ELSE quarterCos(r - 360)

sinDeg(d) == cosDeg(d - 90)

\* the resonator of goertzel from sample n on: <<s1, s2>> after the last
RECURSIVE resonate(_, _, _, _, _)
resonate(x, n, coeff, s1, s2) ==
    IF n > Len(x) THEN <<s1, s2>>
    ELSE LET s0 == x[n] + TDiv(coeff * s1, Scale) - s2
         IN  resonate(x, n + 1, coeff, s0, s1)

\* goertzel(arr, targetHz): the magnitude at targetHz over N, in fixed point.
\* arr holds fixed-point samples; w = 2 pi targetHz / fs is taken in degrees.
goertzel(x, targetHz, fs) ==
    LET N     == Len(x)
        w     == TDiv(targetHz * 360, fs * Scale)
        cw    == cosDeg(w)
        s     == resonate(x, 1, 2 * cw, 0, 0)
        s1    == s[1]
        s2    == s[2]
        real  == s1 - TDiv(s2 * cw, Scale)
        imag  == TDiv(s2 * sinDeg(w), Scale)
    IN  TDiv(ISqrt(real * real + imag * imag), N)

\* 1e-9, held as the smallest positive fixed-point number
Epsilon == 1

\* the sum over k = 2..10 of goertzel(x, f * k)^2
RECURSIVE harmonicSumSq(_, _, _, _)
harmonicSumSq(x, f, fs, k) ==
    IF k > 10 THEN 0
    ELSE LET mag == goertzel(x, f * k, fs)
         IN  mag * mag + harmonicSumSq(x, f, fs, k + 1)

\* the demeaned samples dm (multiples of 1/length) as fixed-point numbers
RECURSIVE fixedSamples(_, _)
fixedSamples(dm, i) ==
    IF i > Len(dm) THEN <<>>
    ELSE <<TDiv(dm[i] * Scale, Len(dm))>> \o fixedSamples(dm, i + 1)

\* the resonator of goertzel on the exact demeaned samples (times their
\* number) for a coeff that IEEE arithmetic holds exactly, 2 or -2
RECURSIVE exactResonate(_, _, _, _, _)
exactResonate(dm, n, coeff, s1, s2) ==
    IF n > Len(dm) THEN <<s1, s2>>
    ELSE exactResonate(dm, n + 1, coeff, dm[n] + coeff * s1 - s2, s1)

\* fund === 0 in IEEE arithmetic: Math.sin(w) is never exactly 0 for w > 0,
\* so the magnitude is 0 only when s1 and s2 both end exactly 0. That is so
\* for an all-zero signal; for another signal it takes an exact cancellation,
\* which needs 2 * Math.cos(w) to be exact: w a multiple of pi (f a multiple
\* of fs / 2). Any other coefficient is rounded and leaves a residue.
fundIsZero(dm, f, fs) ==
    \/ \A n \in 1..Len(dm) : dm[n] = 0
    \/ /\ (f * 360) % (180 * fs * Scale) = 0
       /\ LET coeff == IF (f * 360) % (360 * fs * Scale) = 0 THEN 2 ELSE -2
          IN  exactResonate(dm, 1, coeff, 0, 0) = <<0, 0>>

\* a thdPercent without the test of the fundamental
thdPercentUnguarded(arr, f0, fs) ==
    LET x    == fixedSamples(demean(arr), 1)
        f    == IF f0.t = "num" /\ f0.n > 0 THEN f0.n ELSE 50 * Scale
        fund == goertzel(x, f, fs)
    IN  Num(TDiv(ISqrt(harmonicSumSq(x, f, fs, 2)) * Scale, Max2(fund, Epsilon)) * 100)

\* thdPercent(arr): null when the fundamental magnitude is 0
thdPercent(arr, f0, fs) ==
    LET dm   == demean(arr)
        x    == fixedSamples(dm, 1)
        f    == IF f0.t = "num" /\ f0.n > 0 THEN f0.n ELSE 50 * Scale
        fund == goertzel(x, f, fs)
    IN  IF fundIsZero(dm, f, fs) THEN Null
        ELSE Num(TDiv(ISqrt(harmonicSumSq(x, f, fs, 2)) * Scale, Max2(fund, Epsilon)) * 100)

\* a phase sequence that one angle inside (-180, 0) is enough for
phaseSequenceEither(seq12, seq23) ==
    IF (seq12 > -180 * Scale /\ seq12 < 0) \/ (seq23 > -180 * Scale /\ seq23 < 0)
    THEN "positive" ELSE "unknown"

\* positive = seq12 > -180 && seq12 < 0 && seq23 > -180 && seq23 < 0;
\* phase_sequence = positive ? 'positive' : 'unknown'
phaseSequence(seq12, seq23) ==
    IF seq12 > -180 * Scale /\ seq12 < 0 /\ seq23 > -180 * Scale /\ seq23 < 0
    THEN "positive" ELSE "unknown"

\* computeBaselineMetrics(data)
computeBaselineMetrics(d) ==
    LET fs   == IF d.sampling_rate_hz = 0 THEN 1000 ELSE d.sampling_rate_hz
        f0   == freqFromZeroCross(d.voltage_L1, fs)
        spp  == samplesPerPeriod(f0, fs)
        VrmsL1 == rms(d.voltage_L1)
        VrmsL2 == rms(d.voltage_L2)
        VrmsL3 == rms(d.voltage_L3)
        IrmsL1 == rms(d.current_L1)
        IrmsL2 == rms(d.current_L2)
        IrmsL3 == rms(d.current_L3)
        v12 == Differences(d.voltage_L1, d.voltage_L2)
        v23 == Differences(d.voltage_L2, d.voltage_L3)
        v31 == Differences(d.voltage_L3, d.voltage_L1)
        maxLag == Round(spp)
        phi(a, b) == normDeg(lagToDeg(correlationLag(a, b, maxLag), spp))
        phi_v12 == phi(d.voltage_L1, d.voltage_L2)
        phi_v23 == phi(d.voltage_L2, d.voltage_L3)
        phi_v31 == phi(d.voltage_L3, d.voltage_L1)
        phi_L1  == phi(d.voltage_L1, d.current_L1)
        phi_L2  == phi(d.voltage_L2, d.current_L2)
        phi_L3  == phi(d.voltage_L3, d.current_L3)
        P1 == activePower(d.voltage_L1, d.current_L1)
        P2 == activePower(d.voltage_L2, d.current_L2)
        P3 == activePower(d.voltage_L3, d.current_L3)
        S1 == apparentPower(VrmsL1, IrmsL1)
        S2 == apparentPower(VrmsL2, IrmsL2)
        S3 == apparentPower(VrmsL3, IrmsL3)
        PF1 == powerFactor(P1, S1)
        PF2 == powerFactor(P2, S2)
        PF3 == powerFactor(P3, S3)
        Q1 == reactivePower(PF1, P1, S1)
        Q2 == reactivePower(PF2, P2, S2)
        Q3 == reactivePower(PF3, P3, S3)
        totalP == P1 + P2 + P3
        totalS == S1 + S2 + S3
        totalQ == OrZero(Q1) + OrZero(Q2) + OrZero(Q3)
        totalPF == totalPowerFactor(totalP, totalS)
    IN  Obj([
          rms_values |-> Obj([
            voltage |-> Obj([L1 |-> Num(VrmsL1), L2 |-> Num(VrmsL2), L3 |-> Num(VrmsL3),
                             units |-> Str("V")]),
            current |-> Obj([L1 |-> Num(IrmsL1), L2 |-> Num(IrmsL2), L3 |-> Num(IrmsL3),
                             units |-> Str("A")]),
            line_to_line_voltage |-> Obj([L12 |-> Num(rms(v12)), L23 |-> Num(rms(v23)),
                                          L31 |-> Num(rms(v31)), units |-> Str("V")])]),
          peak_values |-> Obj([
            voltage_L1 |-> Num(peak(d.voltage_L1)), voltage_L2 |-> Num(peak(d.voltage_L2)),
            voltage_L3 |-> Num(peak(d.voltage_L3)), current_L1 |-> Num(peak(d.current_L1)),
            current_L2 |-> Num(peak(d.current_L2)), current_L3 |-> Num(peak(d.current_L3))]),
          frequency_hz |-> f0,
          phase_angles_degrees |-> Obj([
            voltage_L1_vs_current_L1 |-> Num(phi_L1),
            voltage_L2_vs_current_L2 |-> Num(phi_L2),
            voltage_L3_vs_current_L3 |-> Num(phi_L3),
            voltage_L1_vs_voltage_L2 |-> Num(phi_v12),
            voltage_L2_vs_voltage_L3 |-> Num(phi_v23),
            voltage_L3_vs_voltage_L1 |-> Num(phi_v31)]),
          power_analysis |-> Obj([
            active_power |-> Obj([L1 |-> Num(P1), L2 |-> Num(P2), L3 |-> Num(P3),
                                  total |-> Num(totalP), units |-> Str("kW")]),
            reactive_power |-> Obj([L1 |-> Q1, L2 |-> Q2, L3 |-> Q3,
                                    total |-> Num(totalQ), units |-> Str("kVAR")]),
            apparent_power |-> Obj([L1 |-> Num(S1), L2 |-> Num(S2), L3 |-> Num(S3),
                                    total |-> Num(totalS), units |-> Str("kVA")]),
            power_factor |-> Obj([L1 |-> PF1, L2 |-> PF2, L3 |-> PF3, total |-> totalPF])]),
          quality_metrics |-> Obj([
            voltage_unbalance_percent |-> unbalance(VrmsL1, VrmsL2, VrmsL3),
            current_unbalance_percent |-> unbalance(IrmsL1, IrmsL2, IrmsL3),
            thd_voltage |-> Obj([L1 |-> thdPercent(d.voltage_L1, f0, fs),
                                 L2 |-> thdPercent(d.voltage_L2, f0, fs),
                                 L3 |-> thdPercent(d.voltage_L3, f0, fs),
                                 units |-> Str("%")]),
            thd_current |-> Obj([L1 |-> thdPercent(d.current_L1, f0, fs),
                                 L2 |-> thdPercent(d.current_L2, f0, fs),
                                 L3 |-> thdPercent(d.current_L3, f0, fs),
                                 units |-> Str("%")])]),
          phase_sequence |-> Str(phaseSequence(phi_v12, phi_v23))])

-----------------------------------------------------------------------------
(* The shape of the baseline *)

Phase3 == <<"L1", "L2", "L3">>

\* the leaf paths of the object computeBaselineMetrics returns
BaseLeafPaths ==
    << <<"rms_values", "voltage", "L1">>, <<"rms_values", "voltage", "L2">>,
       <<"rms_values", "voltage", "L3">>, <<"rms_values", "voltage", "units">>,
       <<"rms_values", "current", "L1">>, <<"rms_values", "current", "L2">>,
       <<"rms_values", "current", "L3">>, <<"rms_values", "current", "units">>,
       <<"rms_values", "line_to_line_voltage", "L12">>,
       <<"rms_values", "line_to_line_voltage", "L23">>,
       <<"rms_values", "line_to_line_voltage", "L31">>,
       <<"rms_values", "line_to_line_voltage", "units">>,
       <<"peak_values", "voltage_L1">>, <<"peak_values", "voltage_L2">>,
       <<"peak_values", "voltage_L3">>, <<"peak_values", "current_L1">>,
       <<"peak_values", "current_L2">>, <<"peak_values", "current_L3">>,
       <<"frequency_hz">>,
       <<PA, "voltage_L1_vs_current_L1">>, <<PA, "voltage_L2_vs_current_L2">>,
       <<PA, "voltage_L3_vs_current_L3">>, <<PA, "voltage_L1_vs_voltage_L2">>,
       <<PA, "voltage_L2_vs_voltage_L3">>, <<PA, "voltage_L3_vs_voltage_L1">>,
       <<"power_analysis", "active_power", "L1">>, <<"power_analysis", "active_power", "L2">>,
       <<"power_analysis", "active_power", "L3">>, <<"power_analysis", "active_power", "total">>,
       <<"power_analysis", "active_power", "units">>,
       <<"power_analysis", "reactive_power", "L1">>, <<"power_analysis", "reactive_power", "L2">>,
       <<"power_analysis", "reactive_power", "L3">>, <<"power_analysis", "reactive_power", "total">>,
       <<"power_analysis", "reactive_power", "units">>,
       <<"power_analysis", "apparent_power", "L1">>, <<"power_analysis", "apparent_power", "L2">>,
       <<"power_analysis", "apparent_power", "L3">>, <<"power_analysis", "apparent_power", "total">>,
       <<"power_analysis", "apparent_power", "units">>,
       <<"power_analysis", "power_factor", "L1">>, <<"power_analysis", "power_factor", "L2">>,
       <<"power_analysis", "power_factor", "L3">>, <<"power_analysis", "power_factor", "total">>,
       <<QM, "voltage_unbalance_percent">>, <<QM, "current_unbalance_percent">>,
       <<QM, "thd_voltage", "L1">>, <<QM, "thd_voltage", "L2">>,
       <<QM, "thd_voltage", "L3">>, <<QM, "thd_voltage", "units">>,
       <<QM, "thd_current", "L1">>, <<QM, "thd_current", "L2">>,
       <<QM, "thd_current", "L3">>, <<QM, "thd_current", "units">>,
       <<"phase_sequence">> >>

LeafPaths == {BaseLeafPaths[i] : i \in 1..Len(BaseLeafPaths)}

\* the paths of the nested records of that object
GroupPaths ==
    { <<"rms_values">>, <<"rms_values", "voltage">>, <<"rms_values", "current">>,
      <<"rms_values", "line_to_line_voltage">>, <<"peak_values">>, <<PA>>,
      <<"power_analysis">>, <<"power_analysis", "active_power">>,
      <<"power_analysis", "reactive_power">>, <<"power_analysis", "apparent_power">>,
      <<"power_analysis", "power_factor">>, <<QM>>, <<QM, "thd_voltage">>,
      <<QM, "thd_current">> }

\* p is q or a path above q
IsPrefix(p, q) == Len(p) <= Len(q) /\ SubSeq(q, 1, Len(p)) = p

\* the leaves a caller malforms: the unit strings are left alone
DefectLeafPaths == {p \in LeafPaths : p[Len(p)] # "units"}

\* a leaf that is present, non-null and not NaN
IsValidLeaf(v) == v.t \in {"num", "str"}

-----------------------------------------------------------------------------
(* The inputs of the model *)

\* longest channel, largest sample magnitude, most malformations of an
\* external analysis
MaxLen == 4
MaxAmp == 1
MaxDefects == 1

Lens == 2..MaxLen
Samples == (-MaxAmp)..MaxAmp

SeqsOfLen(n) == [1..n -> Samples]

Zeros(n) == [i \in 1..n |-> 0]
Ones(n)  == [i \in 1..n |-> 1]
Neg(v)   == [i \in 1..Len(v) |-> -v[i]]
\* v delayed by one sample, cyclically
Delay(v) == [i \in 1..Len(v) |-> v[IF i = 1 THEN Len(v) ELSE i - 1]]

\* a channel derived from voltage_L1
Form(name, v) ==
    CASE name = "same"   -> v
      [] name = "neg"    -> Neg(v)
      [] name = "delay"  -> Delay(v)
      [] name = "delay2" -> Delay(Delay(v))
      [] name = "zero"   -> Zeros(Len(v))
      [] OTHER           -> Ones(Len(v))

\* how the other channels and the sampling rate go with voltage_L1
Shapes ==
    { [v2 |-> "delay", v3 |-> "delay2", i1 |-> "same",  i2 |-> "delay", i3 |-> "neg",  fs |-> 200],
      [v2 |-> "same",  v3 |-> "ones",   i1 |-> "zero",  i2 |-> "neg",   i3 |-> "ones", fs |-> 400],
      [v2 |-> "neg",   v3 |-> "delay",  i1 |-> "delay", i2 |-> "zero",  i3 |-> "same", fs |-> 200],
      [v2 |-> "zero",  v3 |-> "same",   i1 |-> "ones",  i2 |-> "ones",  i3 |-> "zero", fs |-> 200] }

Batch(v1, sh) ==
    [voltage_L1 |-> v1, voltage_L2 |-> Form(sh.v2, v1), voltage_L3 |-> Form(sh.v3, v1),
     current_L1 |-> Form(sh.i1, v1), current_L2 |-> Form(sh.i2, v1),
     current_L3 |-> Form(sh.i3, v1), sampling_rate_hz |-> sh.fs]

\* batches that satisfy the WaveformBatch invariant
Batches ==
    {Batch(v1, sh) : v1 \in UNION {SeqsOfLen(n) : n \in Lens}, sh \in Shapes}

Square == <<-1, 1, -1, 1>>

\* the batches the merge is exercised with: one with every field of the
\* baseline defined, one with a phase without current and a voltage_L1
\* without two zero crossings
MergeBatches ==
    { Batch(Square, [v2 |-> "delay", v3 |-> "same", i1 |-> "same", i2 |-> "same", i3 |-> "neg", fs |-> 200]),
      Batch(<<1, 0, -1, 0>>, [v2 |-> "delay", v3 |-> "delay2", i1 |-> "zero", i2 |-> "same", i3 |-> "delay", fs |-> 200]) }

\* the leaf an external analysis holds at the i-th baseline path
AiLeaf(i) ==
    IF BaseLeafPaths[i][Len(BaseLeafPaths[i])] = "units" \/ BaseLeafPaths[i] = <<"phase_sequence">>
    THEN Str("ai")
    ELSE Num(-(1000 + i))

AiLeafAt(path) == AiLeaf(CHOOSE i \in 1..Len(BaseLeafPaths) : BaseLeafPaths[i] = path)

AiGroup(prefix, keys) == Obj([k \in keys |-> AiLeafAt(Append(prefix, k))])

\* an external analysis with every baseline-covered leaf present and valid
AiFull ==
    Obj([
      rms_values |-> Obj([
        voltage |-> AiGroup(<<"rms_values", "voltage">>, {"L1", "L2", "L3", "units"}),
        current |-> AiGroup(<<"rms_values", "current">>, {"L1", "L2", "L3", "units"}),
        line_to_line_voltage |->
            AiGroup(<<"rms_values", "line_to_line_voltage">>, {"L12", "L23", "L31", "units"})]),
      peak_values |-> AiGroup(<<"peak_values">>,
            {"voltage_L1", "voltage_L2", "voltage_L3", "current_L1", "current_L2", "current_L3"}),
      frequency_hz |-> AiLeafAt(<<"frequency_hz">>),
      phase_angles_degrees |-> AiGroup(<<PA>>,
            {"voltage_L1_vs_current_L1", "voltage_L2_vs_current_L2", "voltage_L3_vs_current_L3",
             "voltage_L1_vs_voltage_L2", "voltage_L2_vs_voltage_L3", "voltage_L3_vs_voltage_L1"}),
      power_analysis |-> Obj([
        active_power |-> AiGroup(<<"power_analysis", "active_power">>,
                                 {"L1", "L2", "L3", "total", "units"}),
        reactive_power |-> AiGroup(<<"power_analysis", "reactive_power">>,
                                   {"L1", "L2", "L3", "total", "units"}),
        apparent_power |-> AiGroup(<<"power_analysis", "apparent_power">>,
                                   {"L1", "L2", "L3", "total", "units"}),
        power_factor |-> AiGroup(<<"power_analysis", "power_factor">>,
                                 {"L1", "L2", "L3", "total"})]),
      quality_metrics |-> Obj([
        voltage_unbalance_percent |-> AiLeafAt(<<QM, "voltage_unbalance_percent">>),
        current_unbalance_percent |-> AiLeafAt(<<QM, "current_unbalance_percent">>),
        thd_voltage |-> AiGroup(<<QM, "thd_voltage">>, {"L1", "L2", "L3", "units"}),
        thd_current |-> AiGroup(<<QM, "thd_current">>, {"L1", "L2", "L3", "units"})]),
      phase_sequence |-> AiLeafAt(<<"phase_sequence">>)])

\* a free-form narrative block
Notes == Obj([summary |-> Str("s"), observations |-> Obj([first |-> Str("o")])])

\* the phase angles of an external analysis under the alternate keys:
\* voltage_L1_vs_current_L1 under voltage.L1_L1 and voltage_current.L1,
\* voltage_L2_vs_current_L2 under voltage_current.L2 only,
\* voltage_L1_vs_voltage_L2 under voltage.L1_L2, voltage_L2_vs_voltage_L3
\* under its canonical key and voltage.L2_L3, the other two nowhere
AltAngles ==
    Obj([voltage |-> Obj([L1_L1 |-> Num(-2001), L1_L2 |-> Num(-2004), L2_L3 |-> Num(-2005)]),
         voltage_current |-> Obj([L1 |-> Num(-3001), L2 |-> Num(-3002)]),
         voltage_L2_vs_voltage_L3 |-> Num(-1005)])

Template(name) ==
    CASE name = "full"   -> AiFull
      [] name = "notes"  -> Put(AiFull, "analysis_notes", Notes)
      [] name = "blank"  -> Put(AiFull, "analysis_notes", Str(""))
      [] name = "alt"    -> Put(AiFull, PA, AltAngles)
      [] name = "empty"  -> Obj(NoFields)
      [] name = "null"   -> Null
      [] name = "undef"  -> Undef
      [] name = "number" -> Num(5)
      [] OTHER           -> Str("x")

Templates == {"full", "notes", "blank", "alt", "empty", "null", "undef", "number", "string"}

LeafKinds  == {"null", "nan", "absent", "str"}
GroupKinds == {"absent", "str", "num"}

\* the external analysis a with the value at path made malformed
Malform(a, path, kind) ==
    CASE kind = "null"   -> SetPath(a, path, Null)
      [] kind = "nan"    -> SetPath(a, path, NaN)
      [] kind = "absent" -> DelPath(a, path)
      [] kind = "str"    -> SetPath(a, path, Str("x"))
      [] kind = "num"    -> SetPath(a, path, Num(5))
      [] OTHER           -> SetPath(a, path, Obj(NoFields))

NoResult == [out |-> Undef, ai |-> Undef, aliased |-> {}, threw |-> FALSE]

-----------------------------------------------------------------------------
(* Calling computeBaselineMetrics and mergeAnalysis *)

\* the caller malforms one more place of the external analysis
Corrupt(path, kind) ==
    /\ pc = "baseline"
    /\ tmpl = "full"
    /\ Cardinality(defects) < MaxDefects
    /\ \/ path \in DefectLeafPaths /\ kind \in LeafKinds /\ IsValidLeaf(GetPath(ai, path))
       \/ path \in GroupPaths /\ kind \in GroupKinds /\ IsObj(GetPath(ai, path))
                              /\ GetPath(ai, path) # Obj(NoFields)
    /\ ai' = Malform(ai, path, kind)
    /\ defects' = defects \cup {[path |-> path, kind |-> kind]}
    /\ UNCHANGED <<data, base, tmpl, res, pc>>
    /\ UNCHANGED <<hvars, xvars>>

\* const baseline = computeBaselineMetrics(data)
ComputeBaseline ==
    /\ pc = "start"
    /\ base' = computeBaselineMetrics(data)
    /\ pc' = "baseline"
    /\ UNCHANGED <<data, ai, tmpl, defects, res>>
    /\ UNCHANGED <<hvars, xvars>>

\* const merged = mergeAnalysis(analysisResult, baseline)
Merge ==
    /\ pc = "baseline"
    /\ tmpl # "none"
    /\ res' = mergeAnalysis(ai, base)
    /\ pc' = "merged"
    /\ UNCHANGED <<data, base, ai, tmpl, defects>>
    /\ UNCHANGED <<hvars, xvars>>

\* no response of the external service yet, no answer of the handler yet
NoResponse == [status |-> 0, kind |-> "", tmpl |-> "none", defects |-> {}, retryDelay |-> <<>>]
NoReply    == [status |-> 0, error |-> "", body |-> Undef]

\* no signal function and no validator has been called
NoSignal   == [a |-> <<>>, b |-> <<>>, maxLag |-> 0, fs |-> 0]
NoEstimate == [op |-> "", value |-> Undef]
NoText     == [kind |-> "", doc |-> Undef]
NoVerdict  == [by |-> "", isValid |-> FALSE, errors |-> <<>>]

\* no request is being handled
NoRequest ==
    /\ req = [method |-> "", body |-> "", key |-> FALSE]
    /\ attempt = 0
    /\ response = NoResponse
    /\ events = <<>>
    /\ reply = NoReply

\* nothing but the request handler and its core is running
CoreOnly ==
    /\ sig = NoSignal
    /\ est = NoEstimate
    /\ input = NoText
    /\ verdict = NoVerdict

\* computeBaselineMetrics alone, over every batch of the bounds
InitBaseline ==
    /\ NoRequest
    /\ CoreOnly
    /\ data \in Batches
    /\ base = Undef
    /\ ai = Undef
    /\ tmpl = "none"
    /\ defects = {}
    /\ res = NoResult
    /\ pc = "start"

NextBaseline == ComputeBaseline

SpecBaseline == InitBaseline /\ [][NextBaseline]_vars

\* mergeAnalysis on a baseline and an external analysis
InitMerge ==
    /\ NoRequest
    /\ CoreOnly
    /\ data \in MergeBatches
    /\ base = Undef
    /\ tmpl \in Templates
    /\ ai = Template(tmpl)
    /\ defects = {}
    /\ res = NoResult
    /\ pc = "start"

NextMerge ==
    \/ \E path \in DefectLeafPaths \cup GroupPaths, kind \in LeafKinds \cup GroupKinds :
          Corrupt(path, kind)
    \/ ComputeBaseline
    \/ Merge

SpecMerge == InitMerge /\ [][NextMerge]_vars

-----------------------------------------------------------------------------
(* The request handler and fetchWithRetry *)

\* retries = 3
retries == 3

\* return new Response(null, { headers: corsHeaders })
Preflighted == [status |-> 200, error |-> "", body |-> Null]

\* the Response of the outer catch
Failure(msg) == [status |-> 500, error |-> msg, body |-> Undef]

\* new Response(JSON.stringify(merged), ...)
Success(merged) == [status |-> 200, error |-> "", body |-> jsonClone(merged)]

Digits == <<"0", "1", "2", "3", "4", "5", "6", "7", "8", "9">>
IsDigit(c) == \E d \in 1..10 : Digits[d] = c
DigitVal(c) == (CHOOSE d \in 1..10 : Digits[d] = c) - 1

\* the length of the run of digits of str from position k
RECURSIVE digitRun(_, _)
digitRun(str, k) ==
    IF k <= Len(str) /\ IsDigit(str[k]) THEN 1 + digitRun(str, k + 1) ELSE 0

\* the value of the digits str[k .. k + n - 1]
RECURSIVE digitsValue(_, _, _)
digitsValue(str, k, n) ==
    IF n = 0 THEN 0 ELSE digitsValue(str, k, n - 1) * 10 + DigitVal(str[k + n - 1])

\* parseFloat(str) * 1000 for a str of digits, "." and other characters:
\* the longest leading decimal literal, NaN when there is none; the
\* fraction is kept to the millisecond
parseFloatMs(str) ==
    LET n    == digitRun(str, 1)
        dot  == n + 1 <= Len(str) /\ str[n + 1] = "."
        m    == IF dot THEN digitRun(str, n + 2) ELSE 0
        kept == IF m > 3 THEN 3 ELSE m
        frac == digitsValue(str, n + 2, kept)
        pad  == CASE kept = 0 -> 0 [] kept = 1 -> 100 [] kept = 2 -> 10 [] OTHER -> 1
    IN  IF n = 0 /\ m = 0 THEN NaN
        ELSE Num(digitsValue(str, 1, n) * 1000 + frac * pad)

\* 2^n
RECURSIVE Pow2(_)
Pow2(n) == IF n = 0 THEN 1 ELSE 2 * Pow2(n - 1)

\* a backoff that grows by one second per attempt instead of doubling
delayMsLinear(retryDelay, k) ==
    IF retryDelay # <<>> THEN parseFloatMs(retryDelay) ELSE Num(1000 * (k + 1))

\* delayMs = retryDelay ? parseFloat(retryDelay) * 1000 : 1000 * Math.pow(2, i)
\* with an absent retryDelay held as the empty string, falsy as well
delayMs(retryDelay, k) ==
    IF retryDelay # <<>> THEN parseFloatMs(retryDelay) ELSE Num(1000 * Pow2(k))

\* the retryDelay strings of a 429 body: none, "2s", "0.5s", "soon"
RetryDelays == {<<>>, <<"2", "s">>, <<"0", ".", "5", "s">>, <<"s", "o", "o", "n">>}

\* what fetch can settle with: a rejection, or a response with a status and
\* a body; a 429 body is JSON with a retryDelay or not JSON at all, a 200
\* body is not JSON, JSON without candidates, or a candidate whose text
\* holds no braces, braces around no JSON, or an analysis object
OkKinds == {"notjson", "nocandidates", "prose", "broken", "json"}

\* the malformations JSON text can carry
JsonDefects ==
    { [path |-> <<"frequency_hz">>, kind |-> "null"],
      [path |-> <<"rms_values", "voltage", "L1">>, kind |-> "str"],
      [path |-> <<"power_analysis", "power_factor">>, kind |-> "absent"],
      [path |-> <<"rms_values">>, kind |-> "num"],
      [path |-> <<"power_analysis", "active_power">>, kind |-> "num"] }

Outcomes ==
    {[status |-> 0, kind |-> "reject", tmpl |-> "none", defects |-> {}, retryDelay |-> <<>>]}
    \cup {[status |-> 500, kind |-> "error", tmpl |-> "none", defects |-> {}, retryDelay |-> <<>>]}
    \cup {[status |-> 429, kind |-> "notjson", tmpl |-> "none", defects |-> {}, retryDelay |-> <<>>]}
    \cup {[status |-> 429, kind |-> "json", tmpl |-> "none", defects |-> {}, retryDelay |-> r] :
             r \in RetryDelays}
    \cup {[status |-> 200, kind |-> k, tmpl |-> "none", defects |-> {}, retryDelay |-> <<>>] :
             k \in OkKinds \ {"json"}}
    \cup {[status |-> 200, kind |-> "json", tmpl |-> t, defects |-> {}, retryDelay |-> <<>>] :
             t \in {"full", "empty"}}
    \cup {[status |-> 200, kind |-> "json", tmpl |-> "full", defects |-> {d}, retryDelay |-> <<>>] :
             d \in JsonDefects}

\* JSON.parse(jsonMatch[0]) of the text of the response
RECURSIVE parsed(_, _)
parsed(t, ds) ==
    IF ds = {} THEN Template(t)
    ELSE LET d == CHOOSE x \in ds : TRUE
         IN  Malform(parsed(t, ds \ {d}), d.path, d.kind)

Request(ev)  == [type |-> "request", ms |-> Undef, at |-> ev]
Wait(ms, ev) == [type |-> "wait", ms |-> ms, at |-> ev]
Throw(ev)    == [type |-> "throw", ms |-> Undef, at |-> ev]

\* serve(async (req) => ...) up to the call of fetchWithRetry
Receive(method, body, key, d) ==
    /\ pc = "idle"
    /\ req' = [method |-> method, body |-> body, key |-> key]
    /\ data' = d
    /\ IF method = "OPTIONS"
       THEN reply' = Preflighted /\ pc' = "done"
       ELSE IF body = "garbage"
       THEN reply' = Failure("Unexpected token") /\ pc' = "done"
       ELSE IF ~key
       THEN reply' = Failure("GEMINI_API_KEY is not configured") /\ pc' = "done"
       ELSE IF body = "nodata"
       THEN reply' = Failure("Cannot read properties of undefined") /\ pc' = "done"
       ELSE reply' = reply /\ pc' = "fetch"
    /\ attempt' = 0
    /\ UNCHANGED <<base, ai, tmpl, defects, res, response, events>>
    /\ UNCHANGED xvars

\* a turn of the loop that does not wait after the 429 of the last attempt
FetchSkipsLastWait(o) ==
    /\ pc = "fetch"
    /\ attempt < retries
    /\ events' = Append(events, Request(attempt))
           \o (IF o.status = 429 /\ o.kind # "notjson" /\ attempt + 1 < retries
               THEN <<Wait(delayMs(o.retryDelay, attempt), attempt)>> ELSE <<>>)
    /\ response' = IF o.kind = "reject" THEN NoResponse
                   ELSE [status |-> o.status, kind |-> o.kind, tmpl |-> o.tmpl,
                         defects |-> o.defects, retryDelay |-> o.retryDelay]
    /\ IF o.kind = "reject"
       THEN reply' = Failure("fetch failed") /\ pc' = "done"
       ELSE IF o.status # 429
       THEN pc' = "respond" /\ UNCHANGED reply
       ELSE IF o.kind = "notjson"
       THEN reply' = Failure("Unexpected token") /\ pc' = "done"
       ELSE pc' = "wait" /\ UNCHANGED reply
    /\ UNCHANGED <<data, base, ai, tmpl, defects, res, req, attempt>>
    /\ UNCHANGED xvars

\* one turn of the loop of fetchWithRetry: const res = await fetch(url,
\* options), up to the return or the setTimeout
Fetch(o) ==
    /\ pc = "fetch"
    /\ attempt < retries
    /\ events' = Append(events, Request(attempt))
           \o (IF o.status = 429 /\ o.kind # "notjson"
               THEN <<Wait(delayMs(o.retryDelay, attempt), attempt)>> ELSE <<>>)
    /\ response' = IF o.kind = "reject" THEN NoResponse
                   ELSE [status |-> o.status, kind |-> o.kind, tmpl |-> o.tmpl,
                         defects |-> o.defects, retryDelay |-> o.retryDelay]
    /\ IF o.kind = "reject"
       THEN reply' = Failure("fetch failed") /\ pc' = "done"
       ELSE IF o.status # 429
       THEN pc' = "respond" /\ UNCHANGED reply
       ELSE IF o.kind = "notjson"
       THEN reply' = Failure("Unexpected token") /\ pc' = "done"
       ELSE pc' = "wait" /\ UNCHANGED reply
    /\ UNCHANGED <<data, base, ai, tmpl, defects, res, req, attempt>>
    /\ UNCHANGED xvars

\* a timer after which the loop runs while i <= retries
WakeOnceMore ==
    /\ pc = "wait"
    /\ attempt' = attempt + 1
    /\ IF attempt + 1 <= retries
       THEN pc' = "fetch" /\ UNCHANGED <<events, reply>>
       ELSE /\ events' = Append(events, Throw(attempt + 1))
            /\ reply' = Failure("Gemini API quota exceeded after retries")
            /\ pc' = "done"
    /\ UNCHANGED <<data, base, ai, tmpl, defects, res, req, response>>
    /\ UNCHANGED xvars

\* the timer of fetchWithRetry fires: i++, then the next turn or the throw
Wake ==
    /\ pc = "wait"
    /\ attempt' = attempt + 1
    /\ IF attempt + 1 < retries
       THEN pc' = "fetch" /\ UNCHANGED <<events, reply>>
       ELSE /\ events' = Append(events, Throw(attempt + 1))
            /\ reply' = Failure("Gemini API quota exceeded after retries")
            /\ pc' = "done"
    /\ UNCHANGED <<data, base, ai, tmpl, defects, res, req, response>>
    /\ UNCHANGED xvars

\* the handler from the return of fetchWithRetry to its Response
Respond ==
    /\ pc = "respond"
    /\ pc' = "done"
    /\ IF response.status # 200
       THEN /\ reply' = Failure("Gemini API request failed")
            /\ UNCHANGED <<base, ai, tmpl, defects, res>>
       ELSE IF response.kind = "notjson"
       THEN /\ reply' = Failure("Unexpected token")
            /\ UNCHANGED <<base, ai, tmpl, defects, res>>
       ELSE IF response.kind = "nocandidates"
       THEN /\ reply' = Failure("Invalid response from Gemini API")
            /\ UNCHANGED <<base, ai, tmpl, defects, res>>
       ELSE IF response.kind \in {"prose", "broken"}
       THEN /\ reply' = Failure("Failed to parse JSON from Gemini response")
            /\ UNCHANGED <<base, ai, tmpl, defects, res>>
       ELSE LET analysisResult == parsed(response.tmpl, response.defects)
                baseline == computeBaselineMetrics(data)
                merged == mergeAnalysis(analysisResult, baseline)
            IN  /\ tmpl' = response.tmpl
                /\ defects' = response.defects
                /\ base' = baseline
                /\ res' = merged
                /\ ai' = merged.ai
                /\ reply' = IF merged.threw
                            THEN Failure("Failed to parse JSON from Gemini response")
                            ELSE Success(merged.out)
    /\ UNCHANGED <<data, req, attempt, response, events>>
    /\ UNCHANGED xvars

Methods == {"OPTIONS", "POST"}
Bodies  == {"garbage", "nodata", "batch"}

NoData == [voltage_L1 |-> <<>>, voltage_L2 |-> <<>>, voltage_L3 |-> <<>>,
           current_L1 |-> <<>>, current_L2 |-> <<>>, current_L3 |-> <<>>,
           sampling_rate_hz |-> 0]

InitHandler ==
    /\ NoRequest
    /\ CoreOnly
    /\ data = NoData
    /\ base = Undef
    /\ ai = Undef
    /\ tmpl = "none"
    /\ defects = {}
    /\ res = NoResult
    /\ pc = "idle"

NextHandler ==
    \/ \E method \in Methods, body \in Bodies, key \in BOOLEAN, d \in MergeBatches :
          Receive(method, body, key, IF body = "batch" THEN d ELSE NoData)
    \/ \E o \in Outcomes : Fetch(o)
    \/ Wake
    \/ Respond

SpecHandler == InitHandler /\ [][NextHandler]_vars

\* fetchWithRetry called alone, with a fetch that settles and a timer that
\* fires
InitRetry ==
    /\ CoreOnly
    /\ req = [method |-> "POST", body |-> "batch", key |-> TRUE]
    /\ attempt = 0
    /\ response = NoResponse
    /\ events = <<>>
    /\ reply = NoReply
    /\ data = NoData
    /\ base = Undef
    /\ ai = Undef
    /\ tmpl = "none"
    /\ defects = {}
    /\ res = NoResult
    /\ pc = "fetch"

NextRetry ==
    \/ \E o \in Outcomes : Fetch(o)
    \/ Wake

SpecRetry ==
    /\ InitRetry
    /\ [][NextRetry]_vars
    /\ WF_vars(\E o \in Outcomes : Fetch(o))
    /\ WF_vars(Wake)

-----------------------------------------------------------------------------
(* The signal functions of computeBaselineMetrics, each called alone *)

SigLen == 7
CorLen == 3

Levels == {-1, 0, 1}
Rates  == {50, 1000}

WavesOfLen(n) == [1..n -> Levels]

\* a channel and a sampling rate for freqFromZeroCross
Wave(w, r) == [a |-> w, b |-> <<>>, maxLag |-> 0, fs |-> r]

\* two channels of one length and a lag bound for correlationLag
Pair(x, y, m) == [a |-> x, b |-> y, maxLag |-> m, fs |-> 0]

\* the lag bounds, also beyond the length of the channels
LagBounds == 0..(CorLen + 1)

\* const f0 = freqFromZeroCross(arr)
FreqFromZeroCross ==
    /\ pc = "start"
    /\ sig.fs > 0
    /\ est' = [op |-> "freqFromZeroCross", value |-> freqFromZeroCross(sig.a, sig.fs)]
    /\ pc' = "returned"
    /\ UNCHANGED <<data, base, ai, tmpl, defects, res, hvars, sig, input, verdict>>

\* correlationLag(a, b, maxLag)
CorrelationLag ==
    /\ pc = "start"
    /\ Len(sig.b) = Len(sig.a)
    /\ est' = [op |-> "correlationLag", value |-> Num(correlationLag(sig.a, sig.b, sig.maxLag))]
    /\ pc' = "returned"
    /\ UNCHANGED <<data, base, ai, tmpl, defects, res, hvars, sig, input, verdict>>

InitSignal ==
    /\ NoRequest
    /\ \/ \E n \in 1..SigLen : \E w \in WavesOfLen(n), r \in Rates : sig = Wave(w, r)
       \/ \E n \in 1..CorLen : \E x \in WavesOfLen(n), y \in WavesOfLen(n), m \in LagBounds :
              sig = Pair(x, y, m)
    /\ est = NoEstimate
    /\ input = NoText
    /\ verdict = NoVerdict
    /\ data = NoData
    /\ base = Undef
    /\ ai = Undef
    /\ tmpl = "none"
    /\ defects = {}
    /\ res = NoResult
    /\ pc = "start"

NextSignal ==
    \/ FreqFromZeroCross
    \/ CorrelationLag

SpecSignal == InitSignal /\ [][NextSignal]_vars

-----------------------------------------------------------------------------
(* The data validators: validateData of the DataValidator component and the
   static DataValidator.validate *)

ArrLen == 2

\* a JSON text: blank, not JSON, or the document doc
Text(kind, doc) == [kind |-> kind, doc |-> doc]

\* the tokens of a document next to Str, Null and Obj: a number literal
\* m e x, as in 1e999, and an array
Lit(m, x) == [t |-> "lit", n |-> m, s |-> "", f |-> <<x>>]
Arr(seq)  == [t |-> "arr", n |-> 0, s |-> "", f |-> seq]

\* the number Infinity
Infinity == [t |-> "inf", n |-> 1, s |-> "", f |-> NoFields]

\* the largest decimal exponent of a finite double
MaxExponent == 308

RECURSIVE Pow10(_)
Pow10(x) == IF x = 0 THEN 1 ELSE 10 * Pow10(x - 1)

\* the double of a number literal: beyond the range it is Infinity
jsonNumber(l) ==
    IF l.n # 0 /\ l.f[1] > MaxExponent THEN Infinity
    ELSE Num(l.n * Pow10(l.f[1]))

\* JSON.parse of a document
RECURSIVE JSONparse(_)
JSONparse(doc) ==
    CASE doc.t = "lit" -> jsonNumber(doc)
      [] doc.t = "arr" -> Arr([i \in 1..Len(doc.f) |-> JSONparse(doc.f[i])])
      [] doc.t = "obj" -> Obj([k \in DOMAIN doc.f |-> JSONparse(doc.f[k])])
      [] OTHER         -> doc

arrayFields ==
    <<"voltage_L1", "voltage_L2", "voltage_L3", "current_L1", "current_L2", "current_L3">>

requiredFields == arrayFields \o <<"sampling_rate_hz">>

Err(msg, field) == [msg |-> msg, field |-> field]

RECURSIVE Flatten(_)
Flatten(ss) == IF ss = <<>> THEN <<>> ELSE Head(ss) \o Flatten(Tail(ss))

\* field in parsed, for a parsed that is an object or an array; on a
\* primitive the operator throws
HasField(v, k) == IsObj(v) /\ k \in DOMAIN v.f

\* typeof val === 'number': NaN and Infinity are numbers
IsNumber(v) == v.t \in {"num", "nan", "inf"}

\* isFinite(val) on a number
IsFiniteNumber(v) == v.t = "num"

\* the errors for the fields that are not in parsed
Missing(v) ==
    Flatten([i \in 1..Len(requiredFields) |->
        IF HasField(v, requiredFields[i]) THEN <<>>
        ELSE <<Err("Missing required field", requiredFields[i])>>])

\* the lengths of the six arrays are one length
SameLengths(v) ==
    \A i \in 1..Len(arrayFields) : Len(v.f[arrayFields[i]].f) = Len(v.f[arrayFields[1]].f)

LengthErrors(v, errors) ==
    IF errors = <<>> /\ ~SameLengths(v)
    THEN <<Err("All voltage and current arrays must have the same length", "")>>
    ELSE <<>>

\* validateData(jsonString) of the component
validateData(text) ==
    IF text.kind = "blank"
    THEN [isValid |-> FALSE, errors |-> <<Err("No data provided", "")>>]
    ELSE IF text.kind = "garbage" \/ JSONparse(text.doc).t \notin {"obj", "arr"}
    THEN [isValid |-> FALSE, errors |-> <<Err("Invalid JSON format", "")>>]
    ELSE LET parsed_ == JSONparse(text.doc)
             fieldErrors(field) ==
                 IF ~HasField(parsed_, field) THEN <<>>
                 ELSE IF parsed_.f[field].t # "arr"
                 THEN <<Err("must be an array", field)>>
                 ELSE LET arr == parsed_.f[field].f
                      IN  (IF Len(arr) = 0 THEN <<Err("cannot be empty", field)>> ELSE <<>>)
                          \o (IF \A i \in 1..Len(arr) : IsNumber(arr[i]) /\ arr[i].t # "nan"
                              THEN <<>>
                              ELSE <<Err("must contain only valid numbers", field)>>)
             arrayErrors ==
                 Flatten([i \in 1..Len(arrayFields) |-> fieldErrors(arrayFields[i])])
             rateErrors ==
                 IF ~HasField(parsed_, "sampling_rate_hz") THEN <<>>
                 ELSE LET r == parsed_.f["sampling_rate_hz"]
                      IN  IF ~IsNumber(r) \/ r.t = "nan" \/ (r.t = "num" /\ r.n <= 0)
                          THEN <<Err("sampling_rate_hz must be a positive number", "")>>
                          ELSE <<>>
             errors == Missing(parsed_) \o arrayErrors \o rateErrors
             all == errors \o LengthErrors(parsed_, errors)
         IN  [isValid |-> all = <<>>, errors |-> all]

\* DataValidator.validate(jsonString)
validate(text) ==
    IF text.kind = "blank"
    THEN [isValid |-> FALSE, errors |-> <<Err("Input data is empty", "")>>]
    ELSE IF text.kind = "garbage" \/ JSONparse(text.doc).t \notin {"obj", "arr"}
    THEN [isValid |-> FALSE, errors |-> <<Err("Invalid JSON format", "")>>]
    ELSE LET data_ == JSONparse(text.doc)
         IN  IF Missing(data_) # <<>>
             THEN [isValid |-> FALSE, errors |-> Missing(data_)]
             ELSE LET phaseErrors(phase) ==
                          IF data_.f[phase].t # "arr"
                          THEN <<Err("must be an array", phase)>>
                          ELSE IF Len(data_.f[phase].f) = 0
                          THEN <<Err("array cannot be empty", phase)>>
                          ELSE IF \E i \in 1..Len(data_.f[phase].f) :
                                      ~IsNumber(data_.f[phase].f[i])
                                      \/ ~IsFiniteNumber(data_.f[phase].f[i])
                          THEN <<Err("must contain only finite numbers", phase)>>
                          ELSE <<>>
                      r == data_.f["sampling_rate_hz"]
                      rateErrors ==
                          IF ~IsNumber(r) \/ ~IsFiniteNumber(r) \/ r.n <= 0
                          THEN <<Err("sampling_rate_hz must be a positive number", "")>>
                          ELSE <<>>
                      errors ==
                          Flatten([i \in 1..Len(arrayFields) |-> phaseErrors(arrayFields[i])])
                          \o rateErrors
                      all == errors \o LengthErrors(data_, errors)
                  IN  [isValid |-> all = <<>>, errors |-> all]

\* the arrays of the documents: n numbers, the last one possibly replaced
\* by a number beyond the doubles or by a string
Plain(n) == [i \in 1..n |-> Lit(1, 0)]

Tainted(n, e) == [i \in 1..n |-> IF i = n THEN e ELSE Lit(1, 0)]

ArrayDocs ==
    { Arr(Plain(n)) : n \in 0..ArrLen }
    \cup { Arr(Tainted(n, e)) : n \in 1..ArrLen, e \in {Lit(1, 999), Str("x")} }

\* what a document holds for an array field (Undef: the key is absent)
ArrayOptions == ArrayDocs \cup {Undef, Str("x")}

\* what a document holds for sampling_rate_hz
RateOptions == {Undef, Str("x"), Lit(0, 0), Lit(-1, 0), Lit(1000, 0), Lit(1, 999)}

\* the document with x for voltage_L1, z for current_L3, m for the four
\* fields between, and r for the rate
Doc(x, m, z, r) ==
    LET all == [k \in {requiredFields[i] : i \in 1..Len(requiredFields)} |->
                   CASE k = "voltage_L1"       -> x
                     [] k = "current_L3"       -> z
                     [] k = "sampling_rate_hz" -> r
                     [] OTHER                  -> m]
    IN  Obj([k \in { kk \in DOMAIN all : all[kk] # Undef } |-> all[k]])

\* const validation = validateData(data)
ValidateData ==
    /\ pc = "start"
    /\ verdict' = [by |-> "validateData", isValid |-> validateData(input).isValid,
                   errors |-> validateData(input).errors]
    /\ pc' = "validated"
    /\ UNCHANGED <<data, base, ai, tmpl, defects, res, hvars, sig, est, input>>

\* DataValidator.validate(jsonString)
Validate ==
    /\ pc = "start"
    /\ verdict' = [by |-> "validate", isValid |-> validate(input).isValid,
                   errors |-> validate(input).errors]
    /\ pc' = "validated"
    /\ UNCHANGED <<data, base, ai, tmpl, defects, res, hvars, sig, est, input>>

InitValidate ==
    /\ NoRequest
    /\ sig = NoSignal
    /\ est = NoEstimate
    /\ \/ input \in {Text("blank", Null), Text("garbage", Null)}
       \/ \E doc \in {Null, Lit(1, 0), Str("x"), Arr(<<>>)} : input = Text("json", doc)
       \/ \E x \in ArrayOptions, m \in ArrayOptions, z \in ArrayOptions, r \in RateOptions :
              input = Text("json", Doc(x, m, z, r))
    /\ verdict = NoVerdict
    /\ data = NoData
    /\ base = Undef
    /\ ai = Undef
    /\ tmpl = "none"
    /\ defects = {}
    /\ res = NoResult
    /\ pc = "start"

NextValidate ==
    \/ ValidateData
    \/ Validate

SpecValidate == InitValidate /\ [][NextValidate]_vars

-----------------------------------------------------------------------------
(* computeBaselineMetrics on sampled three-phase batches *)

\* the most whole periods a batch holds
MaxCycles == 3

\* the samples per period: multiples of 3, so that a third of a period is a
\* whole number of samples
CycleLens == {3, 6}

\* one period of a sine sampled at T points, in units of sin(60 degrees)
Cycle(T) == IF T = 3 THEN <<0, 1, -1>> ELSE <<0, 1, 1, 0, -1, -1>>

\* n samples of the sine of period T delayed by `delay` samples
RECURSIVE Sampled(_, _, _)
Sampled(T, n, delay) ==
    IF n = 0 THEN <<>>
    ELSE Append(Sampled(T, n - 1, delay), Cycle(T)[((n - 1 - delay) % T) + 1])

\* the loads: none (no current), resistive (the current follows the
\* voltage) and steady (a direct current)
Loads == {"none", "resistive", "steady"}

Current(load, v) ==
    IF load = "none" THEN Zeros(Len(v))
    ELSE IF load = "resistive" THEN v
    ELSE [i \in 1..Len(v) |-> 1]

\* `cycles` periods of three voltages of period T, L1 delayed by `off`
\* samples and each next phase by `step` more, at fs samples per second
ThreePhase(T, cycles, off, step, load, fs) ==
    LET v1 == Sampled(T, T * cycles, off)
        v2 == Sampled(T, T * cycles, off + step)
        v3 == Sampled(T, T * cycles, off + 2 * step)
    IN  [voltage_L1 |-> v1, voltage_L2 |-> v2, voltage_L3 |-> v3,
         current_L1 |-> Current(load, v1), current_L2 |-> Current(load, v2),
         current_L3 |-> Current(load, v3), sampling_rate_hz |-> fs]

\* the delays between phases: none, a third of a period (L1 leads L2 leads
\* L3) and two thirds (the reverse order)
Steps(T) == {0, T \div 3, 2 * (T \div 3)}

PhaseRates == {150, 300}

InitPhases ==
    /\ NoRequest
    /\ CoreOnly
    /\ \E T \in CycleLens, c \in 1..MaxCycles, off \in 0..1, load \in Loads, fs \in PhaseRates :
          \E step \in Steps(T) : data = ThreePhase(T, c, off, step, load, fs)
    /\ base = Undef
    /\ ai = Undef
    /\ tmpl = "none"
    /\ defects = {}
    /\ res = NoResult
    /\ pc = "start"

NextPhases == ComputeBaseline

SpecPhases == InitPhases /\ [][NextPhases]_vars

-----------------------------------------------------------------------------
(* Claims about mergeAnalysis, under SpecMerge *)

Merged == pc = "merged"

\* the leaf of the returned object, of the baseline and of the untouched
\* full external analysis at a path
OutLeaf(p)  == GetPath(res.out, p)
BaseLeaf(p) == GetPath(base, p)
FullLeaf(p) == GetPath(AiFull, p)

\* the baseline has a valid value at every leaf
BaseFullyValid == \A q \in LeafPaths : IsValidLeaf(BaseLeaf(q))

\* the external analysis was the full one with exactly the defect d
OnlyDefect(d) == tmpl = "full" /\ defects = {d}

\* C1: with exactly one baseline-covered leaf of the external analysis null
\* and every other leaf valid, the merged result has the baseline's value
\* at that leaf and the external value at every other leaf (stated for the
\* baselines with no sentinel leaf).
C1_OneNullLeafFallsBack ==
    \A p \in DefectLeafPaths :
        (Merged /\ BaseFullyValid /\ OnlyDefect([path |-> p, kind |-> "null"])) =>
            /\ ~res.threw
            /\ \A q \in LeafPaths :
                  OutLeaf(q) = IF q = p THEN BaseLeaf(q) ELSE FullLeaf(q)

\* C2: whatever the external analysis object holds, every leaf path of the
\* baseline shape is present and non-null in the merged result (stated for
\* the baselines with no sentinel leaf).
C2_MergedFullyPopulated ==
    (Merged /\ BaseFullyValid /\ IsObj(ai)) =>
        /\ ~res.threw
        /\ \A q \in LeafPaths : ~IsNullish(OutLeaf(q))

\* C3: when every baseline-covered leaf of the external analysis is present
\* and valid, every such leaf of the merged result is the external value.
C3_AllValidKeepsExternal ==
    (Merged /\ tmpl = "full" /\ defects = {}) =>
        /\ ~res.threw
        /\ \A q \in LeafPaths : OutLeaf(q) = FullLeaf(q)

\* C3 witness: a merge of the full external analysis in which every leaf of
\* the baseline differs from the external one
C3_Witness ==
    /\ Merged /\ tmpl = "full" /\ defects = {}
    /\ \A q \in LeafPaths : BaseLeaf(q) # FullLeaf(q)

\* C4: mergeAnalysis({}, B) equals B leaf for leaf, also for a baseline
\* whose frequency is NaN or whose power factor is null.
C4_EmptyExternalGivesBaseline ==
    (Merged /\ tmpl = "empty") =>
        /\ ~res.threw
        /\ \A q \in LeafPaths : OutLeaf(q) = BaseLeaf(q)

\* C5: an external analysis that is null, missing or not an object raises
\* no exception and the result equals the baseline.
C5_NoExternalGivesBaseline ==
    (Merged /\ tmpl \in {"null", "undef", "number", "string"}) =>
        /\ ~res.threw
        /\ \A q \in LeafPaths : IsValidLeaf(BaseLeaf(q)) => OutLeaf(q) = BaseLeaf(q)

\* C6: with a single leaf or sub-group of the external analysis malformed
\* (NaN, or a string or number in place of a record), the merge raises no
\* exception, the leaves at or below it take the baseline's values and
\* every other leaf keeps the external value (stated for the baselines with
\* no sentinel leaf).
C6_MalformedLeafFallsBack ==
    \A d \in [path : DefectLeafPaths \cup GroupPaths, kind : {"nan", "str", "num"}] :
        (Merged /\ BaseFullyValid /\ OnlyDefect(d)) =>
            /\ ~res.threw
            /\ \A q \in LeafPaths :
                  OutLeaf(q) = IF IsPrefix(d.path, q) THEN BaseLeaf(q) ELSE FullLeaf(q)

-----------------------------------------------------------------------------
(* Claims about computeBaselineMetrics, under SpecBaseline *)

BaselineDone == pc = "baseline"

VoltageOf(p) ==
    CASE p = "L1" -> data.voltage_L1 [] p = "L2" -> data.voltage_L2 [] OTHER -> data.voltage_L3

CurrentOf(p) ==
    CASE p = "L1" -> data.current_L1 [] p = "L2" -> data.current_L2 [] OTHER -> data.current_L3

Phases == {"L1", "L2", "L3"}

AllZero(arr)  == \A i \in 1..Len(arr) : arr[i] = 0
Constant(arr) == \A i \in 1..Len(arr) : arr[i] = arr[1]

\* the phase has no apparent power: one of its two channels is all zero
Powerless(p) == AllZero(VoltageOf(p)) \/ AllZero(CurrentOf(p))

\* the number of positive-going zero crossings of arr about its mean:
\* x - mean <= 0 is N * x <= sum
NumCrossings(arr) ==
    LET c(i) == Len(arr) * arr[i] - Sum(arr)
    IN  Cardinality({i \in 1..(Len(arr) - 1) : c(i) <= 0 /\ c(i + 1) > 0})

PowerLeaf(q, p) == BaseLeaf(<<"power_analysis", q, p>>)

ThdLeaves ==
    {<<QM, g, p>> : g \in {"thd_voltage", "thd_current"}, p \in Phases}

ChannelOfThd(q) == IF q[2] = "thd_voltage" THEN VoltageOf(q[3]) ELSE CurrentOf(q[3])

C8_NoExceptionSentinels ==
    BaselineDone =>
        /\ IsObj(base)
        /\ \A q \in LeafPaths : BaseLeaf(q).t # "undef"
        /\ (\A p \in Phases : AllZero(VoltageOf(p))) =>
              BaseLeaf(<<QM, "voltage_unbalance_percent">>) = Num(0)
        /\ (\A p \in Phases : AllZero(CurrentOf(p))) =>
              BaseLeaf(<<QM, "current_unbalance_percent">>) = Num(0)
        /\ \A p \in Phases : Constant(VoltageOf(p)) \/ Constant(CurrentOf(p)) =>
              BaseLeaf(<<PA, CASE p = "L1" -> "voltage_L1_vs_current_L1"
                               [] p = "L2" -> "voltage_L2_vs_current_L2"
                               [] OTHER    -> "voltage_L3_vs_current_L3">>) = Num(0)
        /\ NumCrossings(data.voltage_L1) = 0 => BaseLeaf(<<"frequency_hz">>) = NaN
        /\ \A p \in Phases : Powerless(p) => PowerLeaf("power_factor", p) = Null
        /\ \A q \in LeafPaths :
              (/\ q # <<"frequency_hz">>
               /\ q \notin ThdLeaves
               /\ q[Len(q)] # "units" /\ q # <<"phase_sequence">>
               /\ ~(Len(q) = 3 /\ q[2] \in {"power_factor", "reactive_power"}))
              => BaseLeaf(q).t = "num"

\* C8 witness: all voltages zero (zero divisors, no crossing, no apparent
\* power) with a current that is not, whose RMS and peak are computed
C8_Witness ==
    /\ BaselineDone
    /\ \A p \in Phases : AllZero(VoltageOf(p))
    /\ BaseLeaf(<<"frequency_hz">>) = NaN
    /\ PowerLeaf("power_factor", "total") = Null
    /\ BaseLeaf(<<"rms_values", "current", "L1">>).n > 0
    /\ BaseLeaf(<<"peak_values", "current_L1">>).n > 0
    /\ BaseLeaf(<<QM, "current_unbalance_percent">>).n > 0

\* C10: per phase, the power factor is clamp(P / S, -1, 1) when S > 0 and
\* null otherwise; the reactive power is null exactly when the power factor
\* is; a null on one phase leaves the other phases' values and the other
\* fields of that phase computed.
C10_PowerFactorPerPhase ==
    BaselineDone =>
        \A p \in Phases :
            LET P  == PowerLeaf("active_power", p)
                S  == PowerLeaf("apparent_power", p)
                PF == PowerLeaf("power_factor", p)
                Q  == PowerLeaf("reactive_power", p)
                ratio == TDiv(P.n * Scale, S.n)
            IN  /\ P.t = "num" /\ S.t = "num"
                /\ S.n > 0 =>
                      /\ PF.t = "num"
                      /\ PF.n = (IF ratio > Scale THEN Scale
                                 ELSE IF ratio < -Scale THEN -Scale ELSE ratio)
                      /\ Q.t = "num" /\ Q.n >= 0
                /\ S.n <= 0 => PF = Null
                /\ (Q = Null) <=> (PF = Null)
                /\ Q.t \in {"num", "null"}

\* C10 witness: phase L1 without apparent power and a null power factor,
\* phase L2 with a negative power factor, phase L3 with a positive one
C10_Witness ==
    /\ BaselineDone
    /\ PowerLeaf("power_factor", "L1") = Null
    /\ PowerLeaf("reactive_power", "L1") = Null
    /\ PowerLeaf("power_factor", "L2").t = "num" /\ PowerLeaf("power_factor", "L2").n < 0
    /\ PowerLeaf("power_factor", "L3").t = "num" /\ PowerLeaf("power_factor", "L3").n > 0
    /\ PowerLeaf("reactive_power", "L3").t = "num"

-----------------------------------------------------------------------------
(* Claims about the request handler, under SpecHandler *)

\* the request was an analysis request with a batch and the key configured
AnalysisRequest == req.method = "POST" /\ req.body = "batch" /\ req.key

\* the external call failed, ran out of retries on 429, or answered text
\* without parsable JSON
ExternalCallFailed ==
    \/ response.status = 500
    \/ response.status = 200 /\ response.kind \in {"prose", "broken"}
    \/ Len(events) > 0 /\ events[Len(events)].type = "throw"
    \/ reply.error = "fetch failed"

\* C9 as claimed: once an analysis request is answered, the baseline has
\* been computed whatever the external call did.
C9_BaselineWhateverTheOutcome ==
    (pc = "done" /\ AnalysisRequest /\ ExternalCallFailed) => base # Undef

-----------------------------------------------------------------------------
(* Claims about the power and unbalance formulas, under SpecBaseline *)

SumSq(arr)  == Sum(Products(arr, arr))
Dot(a, b)   == Sum(Products(a, b))

RoundedBelow ==
    /\ BaselineDone
    /\ \E p \in Phases :
          /\ PowerLeaf("apparent_power", p).n < Abs(PowerLeaf("active_power", p).n)
          /\ PowerLeaf("reactive_power", p) = Num(0)

\* the RMS values of a group of the baseline, and its unbalance leaf
RmsTriple(g) == [p \in Phases |-> BaseLeaf(<<"rms_values", g, p>>).n]

UnbalanceLeaf(g) ==
    BaseLeaf(<<QM, IF g = "voltage" THEN "voltage_unbalance_percent"
                   ELSE "current_unbalance_percent">>)

\* C12: the unbalance of three RMS values is 100 * max|x - avg| / avg with
\* avg their mean; 0 when avg = 0; 0 when the three are equal; above 0 when
\* one differs from avg.
C12_UnbalanceFormula ==
    BaselineDone =>
        \A g \in {"voltage", "current"} :
            LET r    == RmsTriple(g)
                sum  == r["L1"] + r["L2"] + r["L3"]
                dev3 == CHOOSE d \in {Abs(3 * r[p] - sum) : p \in Phases} :
                            \A p \in Phases : Abs(3 * r[p] - sum) <= d
                u    == UnbalanceLeaf(g)
            IN  /\ u.t = "num"
                /\ \A p \in Phases : r[p] >= 0
                /\ sum = 0 => u.n = 0
                /\ sum > 0 => /\ u.n * sum <= dev3 * 100 * Scale
                              /\ dev3 * 100 * Scale < (u.n + 1) * sum
                /\ (r["L1"] = r["L2"] /\ r["L2"] = r["L3"]) => u.n = 0
                /\ (sum > 0 /\ \E p \in Phases : 3 * r[p] # sum) => u.n > 0

\* C12 witness: three equal non-zero voltage RMS values with unbalance 0
\* beside current RMS values that differ, with a positive unbalance
C12_Witness ==
    /\ BaselineDone
    /\ RmsTriple("voltage")["L1"] > 0
    /\ RmsTriple("voltage")["L1"] = RmsTriple("voltage")["L2"]
    /\ RmsTriple("voltage")["L2"] = RmsTriple("voltage")["L3"]
    /\ UnbalanceLeaf("voltage") = Num(0)
    /\ RmsTriple("current")["L1"] # RmsTriple("current")["L2"]
    /\ UnbalanceLeaf("current").n > 0

-----------------------------------------------------------------------------
(* Claims about the narrative block and the phase angles, under SpecMerge *)

\* the external analysis the caller started from
Started == Template(tmpl)

\* C14: a merge that returns carries the external analysis_notes unchanged
\* when the external analysis has one, and no analysis_notes when it has
\* none.
C14_NotesPassThrough ==
    (Merged /\ ~res.threw) =>
        IF IsObj(Started) /\ "analysis_notes" \in DOMAIN Started.f
        THEN /\ "analysis_notes" \in DOMAIN res.out.f
             /\ res.out.f["analysis_notes"] = Started.f["analysis_notes"]
        ELSE "analysis_notes" \notin DOMAIN res.out.f

\* C14 witness: a merge of an external analysis with a narrative block,
\* which the baseline has not
C14_Witness ==
    /\ Merged /\ ~res.threw
    /\ tmpl = "notes"
    /\ OutLeaf(<<"analysis_notes">>) = Notes
    /\ GetPath(base, <<"analysis_notes">>) = Undef

\* the six phase-angle leaves with their alternate external paths, in the
\* order of resolution
AngleKeys ==
    { [key |-> "voltage_L1_vs_current_L1", alts |-> << <<"voltage", "L1_L1">>, <<"voltage_current", "L1">> >>],
      [key |-> "voltage_L2_vs_current_L2", alts |-> << <<"voltage", "L2_L2">>, <<"voltage_current", "L2">> >>],
      [key |-> "voltage_L3_vs_current_L3", alts |-> << <<"voltage", "L3_L3">>, <<"voltage_current", "L3">> >>],
      [key |-> "voltage_L1_vs_voltage_L2", alts |-> << <<"voltage", "L1_L2">> >>],
      [key |-> "voltage_L2_vs_voltage_L3", alts |-> << <<"voltage", "L2_L3">> >>],
      [key |-> "voltage_L3_vs_voltage_L1", alts |-> << <<"voltage", "L3_L1">> >>] }

\* the first of the values at the paths ps of the group g that is not null
\* or undefined, else the value last
RECURSIVE FirstOf(_, _, _)
FirstOf(g, ps, last) ==
    IF ps = <<>> THEN last
    ELSE IF ~IsNullish(GetPath(g, Head(ps))) THEN GetPath(g, Head(ps))
    ELSE FirstOf(g, Tail(ps), last)

\* C20 as claimed: when the external phase-angle group exists, each of the
\* six leaves is the external canonical value, else the first alternate
\* external value, else the baseline's angle.
C20_AnglesResolveToBaseline ==
    (Merged /\ ~res.threw /\ defects = {} /\ IsObj(GetPath(Started, <<PA>>))) =>
        \A a \in AngleKeys :
            OutLeaf(<<PA, a.key>>) =
                FirstOf(GetPath(Started, <<PA>>), <<<<a.key>>>> \o a.alts,
                        BaseLeaf(<<PA, a.key>>))

\* the part of C20 that holds: canonical, then the alternates, then undefined
AnglesResolveToUndefined ==
    (Merged /\ ~res.threw /\ defects = {} /\ IsObj(GetPath(Started, <<PA>>))) =>
        \A a \in AngleKeys :
            OutLeaf(<<PA, a.key>>) =
                FirstOf(GetPath(Started, <<PA>>), <<<<a.key>>>> \o a.alts, Undef)

-----------------------------------------------------------------------------
(* Claims about the status of the reply, under SpecHandler *)

\* a POST whose body is not JSON, or is JSON without data
InvalidInput == req.method = "POST" /\ req.body \in {"garbage", "nodata"}

\* C15 as claimed: a request whose input data has an invalid format is
\* answered with status 400, and a failure of the external call or of the
\* processing of its answer with status 500.
C15_InvalidInputIs400 ==
    pc = "done" =>
        /\ InvalidInput => reply.status = 400
        /\ (AnalysisRequest /\ reply.error # "") => reply.status = 500

\* what the handler does: every failure, of the input as of the external
\* call, is answered from the one catch block with status 500
EveryFailureIs500 ==
    pc = "done" =>
        /\ reply.status \in {200, 500}
        /\ InvalidInput => reply.status = 500 /\ reply.error # ""
        /\ reply.error # "" <=> reply.status = 500

-----------------------------------------------------------------------------
(* Claims about the normalisation of the angles, under SpecBaseline *)

\* the six phase angles with the two channels each is measured between
AnglePairs ==
    { [key |-> "voltage_L1_vs_voltage_L2", a |-> data.voltage_L1, b |-> data.voltage_L2],
      [key |-> "voltage_L2_vs_voltage_L3", a |-> data.voltage_L2, b |-> data.voltage_L3],
      [key |-> "voltage_L3_vs_voltage_L1", a |-> data.voltage_L3, b |-> data.voltage_L1],
      [key |-> "voltage_L1_vs_current_L1", a |-> data.voltage_L1, b |-> data.current_L1],
      [key |-> "voltage_L2_vs_current_L2", a |-> data.voltage_L2, b |-> data.current_L2],
      [key |-> "voltage_L3_vs_current_L3", a |-> data.voltage_L3, b |-> data.current_L3] }

\* the sampling rate, the samples per period and the lag bound of the batch
RateOf   == IF data.sampling_rate_hz = 0 THEN 1000 ELSE data.sampling_rate_hz
PeriodOf == samplesPerPeriod(freqFromZeroCross(data.voltage_L1, RateOf), RateOf)
MaxLagOf == Round(PeriodOf)

\* the degrees of the lag between two channels, before normalisation
RawDeg(a, b) == lagToDeg(correlationLag(a, b, MaxLagOf), PeriodOf)

AngleLeaf(key) == BaseLeaf(<<PA, key>>).n

\* C17 as claimed: every phase angle lies in (-180, 180], so that 180 stays
\* 180 and -180 is never returned, and is congruent modulo 360 to the
\* degrees of its lag.
C17_HalfOpenAbove ==
    BaselineDone =>
        \A r \in AnglePairs :
            /\ AngleLeaf(r.key) > -180 * Scale
            /\ AngleLeaf(r.key) <= 180 * Scale
            /\ (AngleLeaf(r.key) - RawDeg(r.a, r.b)) % (360 * Scale) = 0

\* C17 amended: every phase angle lies in [-180, 180), is congruent modulo
\* 360 to the degrees of its lag, and is -180 when those degrees are 180 or
\* -180.
C17_HalfOpenBelow ==
    BaselineDone =>
        \A r \in AnglePairs :
            LET raw  == RawDeg(r.a, r.b)
                leaf == AngleLeaf(r.key)
            IN  /\ leaf >= -180 * Scale
                /\ leaf < 180 * Scale
                /\ (leaf - raw) % (360 * Scale) = 0
                /\ Abs(raw) = 180 * Scale => leaf = -180 * Scale

\* C17 witness: one batch with a lag of exactly 180 degrees, normalised to
\* -180, and one with a lag below -180 degrees, wrapped upwards
C17_Witness ==
    /\ BaselineDone
    /\ \E r \in AnglePairs :
           RawDeg(r.a, r.b) = 180 * Scale /\ AngleLeaf(r.key) = -180 * Scale
    /\ \E r \in AnglePairs :
           RawDeg(r.a, r.b) < -180 * Scale /\ AngleLeaf(r.key) > -180 * Scale

-----------------------------------------------------------------------------
(* Claims about freqFromZeroCross and correlationLag, under SpecSignal *)

FreqReturned == pc = "returned" /\ est.op = "freqFromZeroCross"
LagReturned  == pc = "returned" /\ est.op = "correlationLag"

\* sample i (0-based) of arr less its mean, times the length: the sign of
\* the demeaned sample
Centred(arr, i) == Len(arr) * arr[i + 1] - Sum(arr)

\* the 0-based indices at which the demeaned channel goes from <= 0 to > 0
Cross(arr) ==
    { i \in 1..(Len(arr) - 1) : Centred(arr, i - 1) <= 0 /\ Centred(arr, i) > 0 }

Least(S)    == CHOOSE m \in S : \A n \in S : m <= n
Greatest(S) == CHOOSE m \in S : \A n \in S : m >= n

\* C16: the recorded crossings are exactly the indices i in 1..N-1 with
\* demeaned x[i-1] <= 0 and x[i] > 0; with k >= 2 of them the result is
\* fs * (k - 1) / (c_k - c_1), to the resolution of the arithmetic, and with
\* k < 2 it is not-a-number.
C16_FrequencyFromCrossings ==
    FreqReturned =>
        LET C    == Cross(sig.a)
            k    == Cardinality(C)
            rec  == crossings(sig.a)
            f    == est.value
            span == Greatest(C) - Least(C)
        IN  /\ { rec[j] : j \in 1..Len(rec) } = C
            /\ Len(rec) = k
            /\ IF k < 2 THEN f = NaN
               ELSE /\ f.t = "num"
                    /\ f.n * span <= sig.fs * Scale * (k - 1)
                    /\ sig.fs * Scale * (k - 1) < (f.n + 1) * span
                    /\ Sum(periods(rec)) = span

\* C16 witness: a channel with three crossings at uneven distances, one of
\* them leaving a sample that equals the mean
C16_Witness ==
    /\ FreqReturned
    /\ est.value.t = "num"
    /\ LET C == Cross(sig.a)
       IN  /\ Cardinality(C) >= 3
           /\ \E c \in C : Centred(sig.a, c - 1) = 0
           /\ \E c, d, e \in C : c < d /\ d < e /\ d - c # e - d

\* the sum of the products of the demeaned a[i] and b[i + lag] over the
\* indices i for which i + lag is inside b
Overlap(a, b, lag) ==
    { i \in 0..(Len(a) - 1) : i + lag >= 0 /\ i + lag < Len(b) }

RECURSIVE SumOver(_, _, _, _)
SumOver(a, b, lag, I) ==
    IF I = {} THEN 0
    ELSE LET i == CHOOSE j \in I : TRUE
         IN  Centred(a, i) * Centred(b, i + lag) + SumOver(a, b, lag, I \ {i})

Corr(a, b, lag) == SumOver(a, b, lag, Overlap(a, b, lag))

LagsOf == (-sig.maxLag)..sig.maxLag

\* the lags whose sum no other lag of the range exceeds
Maximisers ==
    LET sums == [l \in LagsOf |-> Corr(sig.a, sig.b, l)]
    IN  { l \in LagsOf : \A m \in LagsOf : sums[m] <= sums[l] }

\* the coefficient sum / denom is a number: neither demeaned channel is all
\* zero
Defined == ~Constant(sig.a) /\ ~Constant(sig.b)

\* C18: the lag returned is an integer of [-maxLag, +maxLag] that no other
\* lag of the range exceeds in its sum of demeaned a[i] * b[i + lag] over
\* the overlapping indices, also when maxLag exceeds the length.
C18_LagMaximises ==
    LagReturned =>
        /\ est.value.t = "num"
        /\ est.value.n \in Maximisers

\* C18 witness: a lag bound beyond the length, with a returned lag that is
\* not 0 and that the lag 0 does not reach
C18_Witness ==
    /\ LagReturned
    /\ sig.maxLag > Len(sig.a)
    /\ est.value.n # 0
    /\ 0 \notin Maximisers

\* C19 as claimed: of several lags with the same maximal coefficient the one
\* returned is the first of the ascending scan, that is the one of smallest
\* magnitude.
C19_TieSmallestMagnitude ==
    (LagReturned /\ Defined) =>
        /\ est.value.n \in Maximisers
        /\ \A l \in Maximisers : est.value.n <= l
        /\ \A l \in Maximisers : Abs(est.value.n) <= Abs(l)

\* C19 amended: of several lags with the same maximal coefficient the one
\* returned is the first of the ascending scan, that is the least (most
\* negative) of them; when a channel is constant, so that no coefficient is
\* a number, the lag returned is 0.
C19_TieFirstFound ==
    LagReturned =>
        IF Defined
        THEN /\ est.value.n \in Maximisers
             /\ \A l \in Maximisers : est.value.n <= l
        ELSE est.value.n = 0

\* C19 witness: two lags of different magnitude tie and the negative one,
\* of larger magnitude, is returned
C19_Witness ==
    /\ LagReturned /\ Defined
    /\ \E l \in Maximisers : Abs(l) < Abs(est.value.n)
    /\ est.value.n < 0

-----------------------------------------------------------------------------
(* Claims about the data validators, under SpecValidate *)

Validated == pc = "validated"

\* the WaveformBatch invariant on a parsed document: seven fields, six
\* arrays of one length >= 2 of finite numbers, and a positive rate
WaveformBatch(v) ==
    /\ IsObj(v)
    /\ \A i \in 1..Len(requiredFields) : requiredFields[i] \in DOMAIN v.f
    /\ \A i \in 1..Len(arrayFields) :
           LET c == v.f[arrayFields[i]]
           IN  /\ c.t = "arr"
               /\ Len(c.f) >= 2
               /\ Len(c.f) = Len(v.f[arrayFields[1]].f)
               /\ \A j \in 1..Len(c.f) : c.f[j].t = "num"
    /\ v.f["sampling_rate_hz"].t \in {"num", "inf"}
    /\ v.f["sampling_rate_hz"].n > 0

\* C13 as claimed: every input a validator accepts is a JSON document that
\* satisfies the WaveformBatch invariant, and isValid is true exactly when
\* the list of errors is empty.
C13_AcceptedIsWaveformBatch ==
    Validated =>
        /\ verdict.isValid <=> verdict.errors = <<>>
        /\ verdict.isValid =>
               input.kind = "json" /\ WaveformBatch(JSONparse(input.doc))

\* what the validators guarantee: seven fields, six non-empty arrays of one
\* length of numbers (finite ones for DataValidator.validate), a positive
\* rate, and isValid exactly when there is no error
AcceptedIsNonEmpty ==
    Validated =>
        /\ verdict.isValid <=> verdict.errors = <<>>
        /\ verdict.isValid =>
               /\ input.kind = "json"
               /\ LET v == JSONparse(input.doc)
                  IN  /\ IsObj(v)
                      /\ \A i \in 1..Len(requiredFields) : requiredFields[i] \in DOMAIN v.f
                      /\ \A i \in 1..Len(arrayFields) :
                             LET c == v.f[arrayFields[i]]
                             IN  /\ c.t = "arr"
                                 /\ Len(c.f) >= 1
                                 /\ Len(c.f) = Len(v.f[arrayFields[1]].f)
                                 /\ \A j \in 1..Len(c.f) : c.f[j].t \in {"num", "inf"}
                                 /\ verdict.by = "validate" =>
                                        \A j \in 1..Len(c.f) : c.f[j].t = "num"
                      /\ v.f["sampling_rate_hz"].t \in {"num", "inf"}
                      /\ v.f["sampling_rate_hz"].n > 0

\* both validators accept six arrays of one sample each
OneSampleAccepted ==
    /\ Validated
    /\ verdict.isValid
    /\ \A i \in 1..Len(arrayFields) : Len(JSONparse(input.doc).f[arrayFields[i]].f) = 1

-----------------------------------------------------------------------------
(* Claims about fetchWithRetry, under SpecRetry *)

QuotaError == "Gemini API quota exceeded after retries"

\* the requests issued so far
Requests == { j \in 1..Len(events) : events[j].type = "request" }

\* events starts with k rounds of a request and its wait
Rounds(k) ==
    /\ Len(events) >= 2 * k
    /\ \A r \in 0..(k - 1) :
           /\ events[2 * r + 1] = Request(r)
           /\ events[2 * r + 2].type = "wait"
           /\ events[2 * r + 2].at = r

\* fetchWithRetry returned a response to the handler
Returned == pc = "respond" \/ (pc = "done" /\ response.status \notin {0, 429})

\* fetchWithRetry ended on a 429 response
EndedThrottled == pc = "done" /\ response.status = 429

\* never more than `retries` requests; a response that is not 429 is
\* returned with no request after it
BoundedAndReturned ==
    /\ Cardinality(Requests) <= retries
    /\ Returned =>
           /\ response.status # 429
           /\ Rounds(attempt)
           /\ events = SubSeq(events, 1, 2 * attempt) \o <<Request(attempt)>>

Millis(str) ==
    CASE str = <<"2", "s">>           -> 2000
      [] str = <<"0", ".", "5", "s">> -> 500
      [] OTHER                        -> -1

\* 1000 * 2^n for the attempts of the default retries
Backoff(n) == CASE n = 0 -> 1000 [] n = 1 -> 2000 [] n = 2 -> 4000 [] OTHER -> -1

\* C26: the wait after the 429 of attempt i is 1000 * 2^i ms when the body
\* carries no retryDelay, and s * 1000 ms, whatever i, when it carries a
\* retryDelay of s seconds.
C26_BackoffDelay ==
    pc = "wait" =>
        LET w == events[Len(events)]
        IN  /\ w.type = "wait"
            /\ w.at = attempt
            /\ response.retryDelay = <<>> => w.ms = Num(Backoff(attempt))
            /\ Millis(response.retryDelay) >= 0 => w.ms = Num(Millis(response.retryDelay))

\* C26 witness: a wait of 500 ms for "0.5s" after the second 429 and a wait
\* of 4000 ms after the third, which has no retryDelay
C26_Witness ==
    /\ pc = "wait"
    /\ attempt = 2
    /\ events[4] = Wait(Num(500), 1)
    /\ events[6] = Wait(Num(4000), 2)

\* the event after the last request, if any
AfterLastRequest ==
    LET last == CHOOSE j \in Requests : \A k \in Requests : k <= j
    IN  IF last < Len(events) THEN events[last + 1].type ELSE "none"

-----------------------------------------------------------------------------
(* Claims about what mergeAnalysis shares with its arguments, under SpecMerge *)

\* the top-level groups of the external analysis as the caller passed it
GroupsOf(v) == IF IsObj(v) THEN {k \in DOMAIN v.f : IsObj(v.f[k])} ELSE {}

\* the merge returned normally
MergeReturned == Merged /\ ~res.threw

\* a repair of the merge has changed the group k of the caller's object
RepairedInCaller(k) == k \in GroupsOf(ai) /\ Get(res.ai, k) # Get(ai, k)

\* C30: mergeAnalysis leaves the baseline it is given as it was (the scaffold
\* is a copy), while every top-level group of the external analysis is the
\* same object in the output: after the call the output and the caller's
\* external analysis hold the same group, repairs included, and nothing else
\* of the caller's object has changed.
C30_SharesGroupsNotBaseline ==
    /\ [](MergeReturned =>
            /\ res.aliased = GroupsOf(ai)
            /\ \A k \in GroupsOf(ai) : Get(res.out, k) = Get(res.ai, k)
            /\ IsObj(ai) => /\ DOMAIN res.ai.f = DOMAIN ai.f
                            /\ \A k \in DOMAIN ai.f \ GroupsOf(ai) : res.ai.f[k] = ai.f[k])
    /\ [][pc = "baseline" => base' = base]_vars

C30_Witness ==
    /\ MergeReturned
    /\ \E k \in GroupsOf(ai) : RepairedInCaller(k) /\ Get(res.out, k) = Get(res.ai, k)
    /\ res.out # base

-----------------------------------------------------------------------------
(* Claims about correlationLag on a constant channel, under SpecSignal *)

\* the sum of the squares of the demeaned channel: its energy
Energy(arr) == SumOver(arr, arr, 0, 0..(Len(arr) - 1))

\* one of the two channels has no energy after demeaning
ZeroEnergy == Energy(sig.a) = 0 \/ Energy(sig.b) = 0

-----------------------------------------------------------------------------
(* Claims about the phase sequence and the fallback period, under SpecPhases *)

\* the batch is balanced with L2 the L1 delayed by a third of a period and
\* L3 the L2 delayed by a third, over at least two whole periods
BalancedForward ==
    \E T \in CycleLens, c \in 2..MaxCycles, off \in 0..1, load \in Loads, fs \in PhaseRates :
        data = ThreePhase(T, c, off, T \div 3, load, fs)

SequenceLabel == BaseLeaf(<<"phase_sequence">>)

\* what such a batch gets: the lag that maximises the correlation of L1
\* with the delayed L2 is the delay itself, a positive lag, so that both
\* angles are +120 degrees and the label is "unknown"
ForwardIsUnknown ==
    (BaselineDone /\ BalancedForward) =>
        /\ SequenceLabel = Str("unknown")
        /\ AngleLeaf("voltage_L1_vs_voltage_L2") = 120 * Scale
        /\ AngleLeaf("voltage_L2_vs_voltage_L3") = 120 * Scale

\* C23: a balanced three-phase batch in which L1 leads L2 and L2 leads L3
\* by a third of a period each, with several whole periods sampled, is
\* labelled "positive".
C23_BalancedForwardIsPositive ==
    (BaselineDone /\ BalancedForward) => SequenceLabel = Str("positive")

\* voltage_L1 has fewer than two positive-going crossings of its mean: no
\* frequency can be estimated
FewCrossings == Cardinality(Cross(data.voltage_L1)) < 2

FrequencyLeaf == BaseLeaf(<<"frequency_hz">>)

\* the samples per period and the THD fundamental the claim names: those of
\* 50 Hz without an estimate, those of the estimate otherwise
ClaimedPeriod ==
    IF FewCrossings THEN TDiv(RateOf * Scale, 50)
    ELSE TDiv(RateOf * Scale * Scale, FrequencyLeaf.n)

ClaimedFundamental == IF FewCrossings THEN Num(50 * Scale) ELSE FrequencyLeaf

\* C21: with fewer than two crossings the reported frequency_hz is
\* not-a-number, and every phase angle and every THD is the one computed
\* with samplesPerPeriod = fs / 50, maxLag = round(fs / 50) and a THD
\* fundamental of 50 Hz; with an estimate, which is finite and positive,
\* they are computed with samplesPerPeriod = fs / f0 and the fundamental f0.
C21_FallbackFiftyHertz ==
    BaselineDone =>
        /\ FewCrossings <=> FrequencyLeaf = NaN
        /\ ~FewCrossings => FrequencyLeaf.t = "num" /\ FrequencyLeaf.n > 0
        /\ \A r \in AnglePairs :
               AngleLeaf(r.key) =
                   normDeg(lagToDeg(correlationLag(r.a, r.b, Round(ClaimedPeriod)),
                                    ClaimedPeriod))
        /\ \A q \in ThdLeaves : BaseLeaf(q) = thdPercent(ChannelOfThd(q), ClaimedFundamental, RateOf)

\* C21 witness: one period only, so no estimate; the period of 50 Hz is
\* not the period sampled, an angle computed with it is not 0 and a THD is
\* a number, while frequency_hz is not-a-number
C21_Witness ==
    /\ BaselineDone
    /\ FewCrossings
    /\ FrequencyLeaf = NaN
    /\ ClaimedPeriod # Len(data.voltage_L1) * Scale
    /\ AngleLeaf("voltage_L1_vs_voltage_L2") # 0
    /\ \E q \in ThdLeaves : BaseLeaf(q).t = "num"

-----------------------------------------------------------------------------
(* Claims about the phase sequence label, under SpecBaseline *)

\* the angle lies strictly inside (-180, 0)
Lagging(key) == AngleLeaf(key) > -180 * Scale /\ AngleLeaf(key) < 0

\* C22: the phase_sequence of the baseline is "positive" exactly when the
\* angles of V_L1 against V_L2 and of V_L2 against V_L3 both lie strictly
\* inside (-180, 0), and "unknown" in every other case; there is no other
\* label.
C22_PositiveOrUnknown ==
    BaselineDone =>
        /\ BaseLeaf(<<"phase_sequence">>) \in {Str("positive"), Str("unknown")}
        /\ BaseLeaf(<<"phase_sequence">>) = Str("positive")
               <=> Lagging("voltage_L1_vs_voltage_L2") /\ Lagging("voltage_L2_vs_voltage_L3")

\* C22 witness: one of the two angles lies inside (-180, 0) and the other
\* on its edge at -180, and the label is "unknown"
C22_Witness ==
    /\ BaselineDone
    /\ BaseLeaf(<<"phase_sequence">>) = Str("unknown")
    /\ \/ Lagging("voltage_L1_vs_voltage_L2") /\ AngleLeaf("voltage_L2_vs_voltage_L3") = -180 * Scale
       \/ Lagging("voltage_L2_vs_voltage_L3") /\ AngleLeaf("voltage_L1_vs_voltage_L2") = -180 * Scale

-----------------------------------------------------------------------------
(* Claims about the power totals, under SpecBaseline *)

TotalLeaf(g) == BaseLeaf(<<"power_analysis", g, "total">>)

RECURSIVE SumOfPhases(_, _)
SumOfPhases(g, ps) ==
    IF ps = {} THEN 0
    ELSE LET p == CHOOSE q \in ps : TRUE
             v == PowerLeaf(g, p)
         IN  (IF v = Null THEN 0 ELSE v.n) + SumOfPhases(g, ps \ {p})

\* C28: the total active, apparent and reactive powers are the sums over
\* the three phases, a null reactive power counting as 0; the total power
\* factor is totalP / totalS clamped to [0, 1] when totalS > 0 and null
\* otherwise, so it is never negative and a negative total active power
\* gives 0.
C28_TotalsAreSums ==
    BaselineDone =>
        LET totalP == TotalLeaf("active_power")
            totalS == TotalLeaf("apparent_power")
            totalQ == TotalLeaf("reactive_power")
            totalPF == TotalLeaf("power_factor")
            ratio  == TDiv(totalP.n * Scale, totalS.n)
        IN  /\ totalP = Num(SumOfPhases("active_power", Phases))
            /\ totalS = Num(SumOfPhases("apparent_power", Phases))
            /\ totalQ = Num(SumOfPhases("reactive_power", Phases))
            /\ \A p \in Phases : PowerLeaf("active_power", p).t = "num"
                                 /\ PowerLeaf("apparent_power", p).t = "num"
            /\ IF totalS.n > 0
               THEN /\ totalPF.t = "num"
                    /\ totalPF.n = (IF ratio > Scale THEN Scale
                                    ELSE IF ratio < 0 THEN 0 ELSE ratio)
                    /\ totalPF.n >= 0
                    /\ totalP.n < 0 => totalPF.n = 0
               ELSE totalPF = Null

\* C28 witness: a phase with a null reactive power beside one with a
\* positive one, a negative power factor in a phase and a negative total
\* active power, reported with the total power factor 0
C28_Witness ==
    /\ BaselineDone
    /\ \E p \in Phases : PowerLeaf("reactive_power", p) = Null
    /\ \E p \in Phases : PowerLeaf("reactive_power", p).t = "num" /\ PowerLeaf("reactive_power", p).n > 0
    /\ \E p \in Phases : PowerLeaf("power_factor", p).t = "num" /\ PowerLeaf("power_factor", p).n < 0
    /\ TotalLeaf("active_power").n < 0
    /\ TotalLeaf("apparent_power").n > 0
    /\ TotalLeaf("power_factor") = Num(0)

-----------------------------------------------------------------------------
(* Claims about thdPercent, under SpecPhases *)

\* the fundamental the THD of the batch is taken at
FundamentalOf ==
    LET f0 == BaseLeaf(<<"frequency_hz">>)
    IN  IF f0.t = "num" /\ f0.n > 0 THEN f0.n ELSE 50 * Scale

Harmonics == 2..10

RECURSIVE SumSqMagnitudes(_, _)
SumSqMagnitudes(x, ks) ==
    IF ks = {} THEN 0
    ELSE LET k   == CHOOSE j \in ks : TRUE
             mag == goertzel(x, FundamentalOf * k, RateOf)
         IN  mag * mag + SumSqMagnitudes(x, ks \ {k})

\* C24: the THD of a channel is null, not a number, whenever the
\* fundamental magnitude of the demeaned channel is zero, as for a constant
\* or all-zero channel; for a non-zero fundamental it is the number
\* 100 * sqrt(sum over k = 2..10 of magnitude(f * k)^2) / max(fundamental,
\* 1e-9).
C24_ThdNullOrRatio ==
    BaselineDone =>
        \A q \in ThdLeaves :
            LET ch   == ChannelOfThd(q)
                dm   == demean(ch)
                x    == fixedSamples(dm, 1)
                fund == goertzel(x, FundamentalOf, RateOf)
            IN  /\ Constant(ch) => BaseLeaf(q) = Null
                /\ IF fundIsZero(dm, FundamentalOf, RateOf)
                   THEN BaseLeaf(q) = Null
                   ELSE BaseLeaf(q) =
                            Num(TDiv(ISqrt(SumSqMagnitudes(x, Harmonics)) * Scale,
                                     Max2(fund, Epsilon)) * 100)

\* C24 witness: a constant channel that is not all zero with a null THD
\* beside a channel with a THD that is a positive number
C24_Witness ==
    /\ BaselineDone
    /\ \E q \in ThdLeaves :
           Constant(ChannelOfThd(q)) /\ ~AllZero(ChannelOfThd(q)) /\ BaseLeaf(q) = Null
    /\ \E q \in ThdLeaves : BaseLeaf(q).t = "num" /\ BaseLeaf(q).n > 0


====
